---- MODULE Spec2Model ----
(***************************************************************************)
(* Term resolution and aggregation of the strategic case pipeline.         *)
(*                                                                         *)
(* Texts are sequences of one-character strings, so that lower-casing and  *)
(* whitespace collapsing are computed character by character.  Scores are  *)
(* integers on the 0-100 scale; a cosine similarity s is carried as the    *)
(* integer 100*s (its value in per cent), so that the code's "* 100" and   *)
(* "/ 100.0" conversions are the identity or a change of unit that the     *)
(* definitions state explicitly.                                           *)
(***************************************************************************)
EXTENDS Integers, Sequences, FiniteSets, TLC

VARIABLES
    pc,               \* "idle", or "returned" while the caller holds a result
    fuzz,             \* fuzzywuzzy: (text, concept) -> <<ratio, partial, token_sort, token_set>>
    similarity,       \* spaCy: (text, text) -> Doc.similarity in per cent
    facts,            \* argument of the last map_concepts call
    all_matches,      \* map_concepts: the candidates collected before sorting
    unique_matches,   \* map_concepts: the returned list
    semantic_calls,   \* (text, concept) pairs handed to _semantic_match in the last call
    extract_one,      \* rapidfuzz process.extractOne: term -> <<match, score>>
    extracted_terms,  \* argument of the last map_to_knowledge_base call
    mapped_concepts,  \* map_to_knowledge_base: the returned list
    fuzzy_calls,      \* terms handed to fuzzy_match_term in the last call
    kb_semantic_calls, \* terms handed to semantic_match_term in the last call
    backend,          \* what the spaCy model package of SPACY_MODEL is on this machine
    nlp,              \* module -> the cached model object of its load_nlp_model, 0 for None
    load_count,       \* module -> how many model objects spacy.load has built for it
    returned_models,  \* module -> the model objects its load_nlp_model has returned
    error,            \* the exception the last call ended with, "none" if it returned
    case_inputs,      \* arguments of the last process_case_text call
    extracted,        \* process_case_text: the returned list of ExtractedFacts
    request_texts,    \* the dictionary of texts of the last assemble_answer call
    only_question,    \* argument of the last assemble_answer call
    top_n,            \* argument of the last assemble_answer call: <<n>>, << >> for None
    rendered,         \* assemble_answer: the matches handed to the template
    answer,           \* assemble_answer: which branch of the template was rendered
    raw_text,         \* argument of _normalise
    normalised,       \* _normalise(raw_text)
    renormalised,     \* _normalise(_normalise(raw_text))
    categories,       \* argument of build_concept_sentences: <<category, concepts>> pairs
    sentences,        \* build_concept_sentences: the returned string
    theory_templates, \* argument of assemble_answer: <<theory, template>> pairs, in dict order
    concepts_by_category, \* argument of assemble_answer: <<category, concepts>> pairs
    style_instructions, \* argument of assemble_answer: << >> for None
    word_limit,       \* keyword argument of generate_answer: <<n>>, << >> if not passed
    assembled,        \* assemble_answer: the words of the returned answer
    files,            \* the file system: path -> what the file holds, "absent" if none
    export_call,      \* the last export call and the file system it found
    cli_args,         \* arguments of the last validate_inputs call
    usage_error,      \* validate_inputs: the UsageError it raised, "none" if it returned
    tag_text,         \* argument of extract_tags
    found_tags,       \* extract_tags: the returned list
    thread_pc,        \* thread -> where it is inside load_nlp_model
    thread_nlp,       \* thread -> the local variable nlp of its call, 0 if unset
    categorized_concepts \* analyze_case_context: <<category, entries>> pairs, in dict order

\* the request and the result of map_concepts
map_vars == <<facts, all_matches, unique_matches, semantic_calls>>

\* the request and the result of map_to_knowledge_base
kb_vars == <<extracted_terms, mapped_concepts, fuzzy_calls, kb_semantic_calls>>

\* the answers of the scoring libraries
oracle_vars == <<fuzz, similarity, extract_one>>

\* the state of the model loaders
loader_vars == <<backend, nlp, load_count, returned_models>>

\* the request and the result of process_case_text
extract_vars == <<case_inputs, extracted>>

\* the request and the result of assemble_answer
assemble_vars == <<request_texts, only_question, top_n, rendered, answer>>

\* the requests and the results of _normalise and build_concept_sentences
text_vars == <<raw_text, normalised, renormalised, categories, sentences>>

\* the request and the result of assemble_answer with templates
template_vars == <<theory_templates, concepts_by_category, style_instructions, word_limit,
                   assembled>>

\* the file system and the last export call
export_vars == <<files, export_call>>

\* the request and the result of validate_inputs
cli_vars == <<cli_args, usage_error>>

\* the request and the result of extract_tags
tag_vars == <<tag_text, found_tags>>

\* the threads inside load_nlp_model
thread_vars == <<thread_pc, thread_nlp>>

\* the assembler with templates, the exporters, the command line, the tagger,
\* the loader's threads and analyze_case_context
front_vars == <<template_vars, export_vars, cli_vars, tag_vars, thread_vars,
                categorized_concepts>>

vars == <<pc, error, oracle_vars, map_vars, kb_vars, loader_vars, extract_vars,
          assemble_vars, text_vars, front_vars>>

\* no request has been made
IdleMap ==
    /\ facts = << >>
    /\ all_matches = << >>
    /\ unique_matches = << >>
    /\ semantic_calls = {}

IdleKnowledgeBase ==
    /\ extracted_terms = << >>
    /\ mapped_concepts = << >>
    /\ fuzzy_calls = {}
    /\ kb_semantic_calls = {}

IdleExtract ==
    /\ case_inputs = << >>
    /\ extracted = << >>

IdleAssemble ==
    /\ request_texts = << >>
    /\ only_question = FALSE
    /\ top_n = << >>
    /\ rendered = << >>
    /\ answer = "none"

IdleText ==
    /\ raw_text = << >>
    /\ normalised = << >>
    /\ renormalised = << >>
    /\ categories = << >>
    /\ sentences = << >>

IdleTemplates ==
    /\ theory_templates = << >>
    /\ concepts_by_category = << >>
    /\ style_instructions = << >>
    /\ word_limit = << >>
    /\ assembled = << >>

IdleExport ==
    /\ files = << >>
    /\ export_call = << >>

IdleCli ==
    /\ cli_args = << >>
    /\ usage_error = "none"

IdleTags ==
    /\ tag_text = << >>
    /\ found_tags = << >>

IdleThreads ==
    /\ thread_pc = << >>
    /\ thread_nlp = << >>

IdleAnalyze == categorized_concepts = << >>

IdleFront ==
    /\ IdleTemplates
    /\ IdleExport
    /\ IdleCli
    /\ IdleTags
    /\ IdleThreads
    /\ IdleAnalyze

-----------------------------------------------------------------------------
(* Bounds of the model *)

MaxFacts == 2

MaxTerms == 2

MaxDictEntries == 1

MaxCandidates == 2

MaxLoads == 2

MaxTopN == 2

MaxTextLen == 4

MaxConcepts == 2

\* the lines of an exported text
MaxLines == 2

\* the threads that call load_nlp_model
MaxThreads == 2

\* the pieces of a text handed to extract_tags
MaxPieces == 3

\* the word limits passed to generate_answer
MinWordLimit == 10

MaxWordLimit == 20

-----------------------------------------------------------------------------
(* Texts *)

s_network_effects == <<"n", "e", "t", "w", "o", "r", "k", " ", "e", "f", "f", "e", "c", "t", "s">>
s_Network_Effects == <<"N", "e", "t", "w", "o", "r", "k", " ", "E", "f", "f", "e", "c", "t", "s">>
s_network__effects == <<"n", "e", "t", "w", "o", "r", "k", " ", " ", "e", "f", "f", "e", "c", "t", "s">>
s_network_externalities == <<"n", "e", "t", "w", "o", "r", "k", " ", "e", "x", "t", "e", "r", "n", "a", "l", "i", "t", "i", "e", "s">>
s_Network_Externalities == <<"N", "e", "t", "w", "o", "r", "k", " ", "E", "x", "t", "e", "r", "n", "a", "l", "i", "t", "i", "e", "s">>
s_network_externality == <<"n", "e", "t", "w", "o", "r", "k", " ", "e", "x", "t", "e", "r", "n", "a", "l", "i", "t", "y">>
s_externalities == <<"e", "x", "t", "e", "r", "n", "a", "l", "i", "t", "i", "e", "s">>
s_purple_elephant_dancing == <<"p", "u", "r", "p", "l", "e", " ", "e", "l", "e", "p", "h", "a", "n", "t", " ", "d", "a", "n", "c", "i", "n", "g">>
s_transaction_cost == <<"t", "r", "a", "n", "s", "a", "c", "t", "i", "o", "n", " ", "c", "o", "s", "t">>
s_Platform_Strategy == <<"P", "l", "a", "t", "f", "o", "r", "m", " ", "S", "t", "r", "a", "t", "e", "g", "y">>

UpperCase == <<"A", "B", "C", "D", "E", "F", "G", "H", "I", "J", "K", "L", "M",
               "N", "O", "P", "Q", "R", "S", "T", "U", "V", "W", "X", "Y", "Z">>
LowerCase == <<"a", "b", "c", "d", "e", "f", "g", "h", "i", "j", "k", "l", "m",
               "n", "o", "p", "q", "r", "s", "t", "u", "v", "w", "x", "y", "z">>

\* the characters the regular expression \s matches
Whitespace == {" ", "\t", "\n", "\r"}

\* the characters of the model's texts
Chars ==
    {UpperCase[i] : i \in 1..Len(UpperCase)} \cup {LowerCase[i] : i \in 1..Len(LowerCase)}
    \cup Whitespace \cup {"-", ",", ".", "_", ":", "(", ")"}

\* str.lower() on one character: an upper-case letter becomes its lower-case
\* letter, every other character is kept
LowerChar ==
    [c \in Chars |->
        IF \E i \in 1..Len(UpperCase) : UpperCase[i] = c
        THEN LowerCase[CHOOSE i \in 1..Len(UpperCase) : UpperCase[i] = c]
        ELSE c]

\* str.lower()
lower(text) == [i \in 1..Len(text) |-> LowerChar[text[i]]]

\* the texts that occur in the model
Texts ==
    {s_network_effects, s_Network_Effects, s_network__effects, s_network_externalities,
     s_Network_Externalities, s_network_externality, s_externalities,
     s_purple_elephant_dancing, s_transaction_cost, s_Platform_Strategy}

\* str.lower() of the model's texts, computed once
lowered == [t \in Texts |-> lower(t)]

Max(a, b) == IF a >= b THEN a ELSE b

\* the sequences over S of length at most n
RECURSIVE SeqUpTo(_, _)
SeqUpTo(S, n) ==
    IF n = 0 THEN {<< >>}
    ELSE LET shorter == SeqUpTo(S, n - 1)
         IN  shorter \cup {Append(s, x) : s \in {t \in shorter : Len(t) = n - 1}, x \in S}

-----------------------------------------------------------------------------
(* case_context/knowledge_base.py, case_context/config.py *)

\* Two of the entries of the KNOWLEDGE_BASE table, in the table's order.
KNOWLEDGE_BASE ==
    << [name |-> s_Network_Effects,
        definition |-> "The phenomenon where a product or service becomes more valuable as more people use it.",
        theory |-> "PlatformStrategy"],
       [name |-> s_Platform_Strategy,
        definition |-> "A business model that creates value by facilitating exchanges between two or more interdependent groups, usually consumers and producers.",
        theory |-> "PlatformStrategy"] >>

\* CONCEPTS: the concept names, in dictionary (insertion) order
CONCEPTS == [i \in 1..Len(KNOWLEDGE_BASE) |-> KNOWLEDGE_BASE[i].name]

FUZZY_THRESHOLD == 60

SEMANTIC_THRESHOLD == 50

\* the source tags of process_case_text
Sources == {"case", "question", "user_inputs"}

-----------------------------------------------------------------------------
(* case_context/extract.py and extract.py: load_nlp_model *)

\* the modules that hold a load_nlp_model and its cache
Modules == {"case_context.extract", "extract"}

\* The model package on this machine: "installed" (spacy.load returns a working
\* pipeline), "downloadable" (spacy.load raises OSError, download() installs
\* it), "unavailable" (spacy.load raises OSError and download() fails), or
\* "faulty" (spacy.load returns a pipeline that raises when it is run).
Backends == {"installed", "downloadable", "unavailable", "faulty"}

\* spacy.load(SPACY_MODEL) returns a pipeline
spacy_load_succeeds(b) == b \in {"installed", "faulty"}

\* download(SPACY_MODEL) installs the package
download_succeeds(b) == b = "downloadable"

\* nlp("This is a test sentence to initialize the model.") returns
pipeline_runs(b) == b # "faulty"

\* a cache test that never finds the cached model
is_cached_never(model) == FALSE

\* "_nlp is not None", "hasattr(load_nlp_model, 'nlp')"
is_cached(model) == model # 0

\* a loader that stores the model in the cache before the initialisation run
load_nlp_model_cache_first ==
    LET cached == nlp["case_context.extract"]
        built == load_count["case_context.extract"] + 1
        installed == IF spacy_load_succeeds(backend) THEN backend ELSE "installed"
    IN  IF is_cached(cached)
        THEN [model |-> cached, error |-> "none", loads |-> 0,
              cache |-> cached, backend |-> backend]
        ELSE IF ~spacy_load_succeeds(backend) /\ ~download_succeeds(backend)
        THEN [model |-> 0, error |-> "DownloadFailure", loads |-> 0,
              cache |-> cached, backend |-> backend]
        ELSE IF ~pipeline_runs(installed)
        THEN [model |-> 0, error |-> "Exception", loads |-> 1,
              cache |-> built, backend |-> installed]
        ELSE [model |-> built, error |-> "none", loads |-> 1,
              cache |-> built, backend |-> installed]

\* load_nlp_model of case_context/extract.py.  The outcome of a call: the model
\* it returns (0 if it raises), the exception, how many model objects
\* spacy.load built, the cache and the package state it leaves.
load_nlp_model ==
    LET cached == nlp["case_context.extract"]
        built == load_count["case_context.extract"] + 1
        installed == IF spacy_load_succeeds(backend) THEN backend ELSE "installed"
    IN  IF is_cached(cached)
        THEN [model |-> cached, error |-> "none", loads |-> 0,
              cache |-> cached, backend |-> backend]
        ELSE IF ~spacy_load_succeeds(backend) /\ ~download_succeeds(backend)
        THEN [model |-> 0, error |-> "DownloadFailure", loads |-> 0,
              cache |-> cached, backend |-> backend]
        ELSE IF ~pipeline_runs(installed)
        THEN [model |-> 0, error |-> "Exception", loads |-> 1,
              cache |-> cached, backend |-> installed]
        ELSE [model |-> built, error |-> "none", loads |-> 1,
              cache |-> built, backend |-> installed]

\* load_nlp_model of the extract module that case_context/src/map.py imports:
\* get_optimized_nlp() is spacy.load and select_pipes, an OSError is not caught
kb_load_nlp_model ==
    LET cached == nlp["extract"]
        built == load_count["extract"] + 1
    IN  IF is_cached(cached)
        THEN [model |-> cached, error |-> "none", loads |-> 0,
              cache |-> cached, backend |-> backend]
        ELSE IF ~spacy_load_succeeds(backend)
        THEN [model |-> 0, error |-> "OSError", loads |-> 0,
              cache |-> cached, backend |-> backend]
        ELSE [model |-> built, error |-> "none", loads |-> 1,
              cache |-> built, backend |-> backend]

\* the effect of a call of the loader of module m with the given outcome
Loaded(m, outcome) ==
    /\ load_count[m] + outcome.loads <= MaxLoads
    /\ nlp' = [nlp EXCEPT ![m] = outcome.cache]
    /\ load_count' = [load_count EXCEPT ![m] = @ + outcome.loads]
    /\ returned_models' =
           [returned_models EXCEPT
               ![m] = IF outcome.error = "none" THEN @ \cup {outcome.model} ELSE @]
    /\ backend' = outcome.backend

\* no model is loaded yet, and the package is in state b
InitLoader(b) ==
    /\ backend = b
    /\ nlp = [m \in Modules |-> 0]
    /\ load_count = [m \in Modules |-> 0]
    /\ returned_models = [m \in Modules |-> {}]
    /\ error = "none"

-----------------------------------------------------------------------------
(* case_context/map.py *)

\* KNOWLEDGE_BASE.get(name): the sequence holding the concept, or the empty
\* sequence for None
get_concept_by_name(name) ==
    SelectSeq(KNOWLEDGE_BASE, LAMBDA c : c.name = name)

\* the synonyms dictionary of _semantic_match
synonyms(text_lower) ==
    IF text_lower \in {s_network_externalities, s_network_externality, s_externalities}
    THEN s_network_effects
    ELSE text_lower

\* the text _semantic_match hands to nlp() for the phrase
semantic_text(text) == synonyms(lowered[text])

\* _semantic_match: doc1.similarity(doc2) * 100
semantic_match(text, concept_text) ==
    similarity[<<semantic_text(text), lowered[concept_text]>>]

\* max(fuzzy_scores) over the four fuzzywuzzy ratios
fuzzy_score_of(text, concept_name) ==
    LET fuzzy_scores == fuzz[<<lowered[text], lowered[concept_name]>>]
    IN  Max(Max(fuzzy_scores[1], fuzzy_scores[2]), Max(fuzzy_scores[3], fuzzy_scores[4]))

\* a reversed comparison in the acceptance test
accepts_reversed(score, ft, st) == score <= ft \/ score <= st

\* the acceptance test of _get_matches, for thresholds ft and st
accepts(score, ft, st) == score >= ft \/ score >= st

\* getattr(concept, "source", "case")
source_of(concept) ==
    IF "source" \in DOMAIN concept THEN concept["source"] ELSE "case"

\* the ConceptMatch that _get_matches builds for a concept, in a sequence, or
\* the empty sequence when the pair is rejected
match_for(text, concept_name, ft, st) ==
    LET fuzzy_score == fuzzy_score_of(text, concept_name)
        semantic_score == semantic_match(text, concept_name)
        score == Max(fuzzy_score, semantic_score)
        found == get_concept_by_name(concept_name)
    IN  IF accepts(score, ft, st) /\ found # << >>
        THEN << [concept |-> concept_name,
                 score |-> score,
                 definition |-> found[1].definition,
                 source |-> source_of(found[1]),
                 matched_text |-> text] >>
        ELSE << >>

\* list.sort(key=score, reverse=True): a stable sort by descending score.
\* insert_sorted puts m behind every entry whose score is at least m's.
RECURSIVE insert_sorted(_, _)
insert_sorted(sorted, m) ==
    IF sorted = << >> THEN <<m>>
    ELSE IF Head(sorted).score >= m.score
         THEN <<Head(sorted)>> \o insert_sorted(Tail(sorted), m)
         ELSE <<m>> \o sorted

\* a sort that was left out: the list stays in collection order
sort_by_score_missing(matches) == matches

RECURSIVE sort_by_score(_)
sort_by_score(matches) ==
    IF matches = << >> THEN << >>
    ELSE insert_sorted(sort_by_score(SubSeq(matches, 1, Len(matches) - 1)),
                       matches[Len(matches)])

\* the loop of _get_matches over the first n concepts
RECURSIVE matches_upto(_, _, _, _)
matches_upto(text, n, ft, st) ==
    IF n = 0 THEN << >>
    ELSE matches_upto(text, n - 1, ft, st) \o match_for(text, CONCEPTS[n], ft, st)

\* _get_matches under thresholds ft, st
get_matches_at(text, ft, st) ==
    sort_by_score(matches_upto(text, Len(CONCEPTS), ft, st))

\* _get_matches
get_matches(text) == get_matches_at(text, FUZZY_THRESHOLD, SEMANTIC_THRESHOLD)

\* the (text, concept) pairs for which _get_matches calls _semantic_match
get_matches_semantic_calls(text) ==
    {<<text, CONCEPTS[i]>> : i \in 1..Len(CONCEPTS)}

\* a duplicate filter keyed by the concept alone
dedup_key_concept_only(match) == <<match.concept>>

\* the key of the duplicate filter of map_concepts
dedup_key(match) == <<match.concept, match.source>>

\* a duplicate filter that keeps the last match of each key
RECURSIVE remove_duplicates_keep_last(_, _)
remove_duplicates_keep_last(matches, seen) ==
    IF matches = << >> THEN << >>
    ELSE IF \E j \in 2..Len(matches) : dedup_key(matches[j]) = dedup_key(Head(matches))
         THEN remove_duplicates_keep_last(Tail(matches), seen)
         ELSE <<Head(matches)>> \o remove_duplicates_keep_last(Tail(matches), seen)

\* a duplicate filter that never records the keys it has seen
remove_duplicates_forgetful(matches, seen) == matches

\* the duplicate filter of map_concepts: the first match of each key is kept
RECURSIVE remove_duplicates(_, _)
remove_duplicates(matches, seen) ==
    IF matches = << >> THEN << >>
    ELSE LET key == dedup_key(Head(matches))
         IN  IF key \notin seen
             THEN <<Head(matches)>> \o remove_duplicates(Tail(matches), seen \cup {key})
             ELSE remove_duplicates(Tail(matches), seen)

\* map_concepts, lines 178-188: sort by score, then remove duplicates
aggregate(matches) == remove_duplicates(sort_by_score(matches), {})

\* map_concepts, lines 172-176: the matches of every fact, in fact order
RECURSIVE collect_matches(_, _, _)
collect_matches(extracted_facts, ft, st) ==
    IF extracted_facts = << >> THEN << >>
    ELSE get_matches_at(Head(extracted_facts).text, ft, st)
         \o collect_matches(Tail(extracted_facts), ft, st)

\* map_concepts under thresholds ft, st
map_concepts_at(extracted_facts, ft, st) ==
    aggregate(collect_matches(extracted_facts, ft, st))

\* map_concepts on a list of ExtractedFact
map_concepts(extracted_facts) ==
    map_concepts_at(extracted_facts, FUZZY_THRESHOLD, SEMANTIC_THRESHOLD)

\* map_concepts, lines 144-168: the facts of a dictionary of texts.  An entry is
\* [source, is_str, noun_chunks, verbs]: the key, whether the value is a str,
\* and what nlp(text) finds in it.
RECURSIVE facts_of(_, _, _)
facts_of(texts, source, type) ==
    IF texts = << >> THEN << >>
    ELSE <<[text |-> Head(texts), source |-> source, type |-> type]>>
         \o facts_of(Tail(texts), source, type)

RECURSIVE facts_of_dict(_)
facts_of_dict(entries) ==
    IF entries = << >> THEN << >>
    ELSE LET e == Head(entries)
         IN  (IF e.is_str
              THEN facts_of(e.noun_chunks, e.source, "noun_chunk")
                   \o facts_of(e.verbs, e.source, "verb")
              ELSE << >>)
             \o facts_of_dict(Tail(entries))

-----------------------------------------------------------------------------
(* The inputs and the library oracles of map_concepts *)

Range(f) == {f[i] : i \in DOMAIN f}

\* the phrase texts of the facts
FactTexts == {s_Network_Externalities, s_purple_elephant_dancing}

\* the ExtractedFact records a caller passes in a list: facts of the case
\* text and of the question text
FactUniverse ==
    {[text |-> t, source |-> s, type |-> "noun_chunk"] :
        t \in FactTexts, s \in {"case", "question"}}

\* the keys under which assemble_answer and the tests pass the texts
DictKeys == {"case_text", "question_text", "user_inputs_text"}

\* the entries of a dictionary of texts: a value that is no str, or a text in
\* which nlp() finds at most one noun chunk or one verb
DictEntries ==
    {[source |-> s, is_str |-> FALSE, noun_chunks |-> << >>, verbs |-> << >>] : s \in DictKeys}
    \cup {[source |-> s, is_str |-> TRUE, noun_chunks |-> n, verbs |-> << >>] :
            s \in DictKeys, n \in SeqUpTo(FactTexts, 1)}
    \cup {[source |-> s, is_str |-> TRUE, noun_chunks |-> << >>,
            verbs |-> <<s_purple_elephant_dancing>>] : s \in DictKeys}

\* a dictionary has one value per key
DistinctKeys(entries) ==
    \A i, j \in 1..Len(entries) : entries[i].source = entries[j].source => i = j

\* what the four fuzzywuzzy ratios return for two different strings
FuzzyScoreLists == {<<20, 30, 25, 30>>, <<45, 55, 50, 55>>, <<70, 80, 75, 80>>}

\* what Doc.similarity returns for two different texts, in per cent
SimilarityValues == {20, 90}

FuzzPairs == {<<lowered[t], lowered[c]>> : t \in FactTexts, c \in Range(CONCEPTS)}

SimilarityPairs == {<<semantic_text(t), lowered[c]>> : t \in FactTexts, c \in Range(CONCEPTS)}

\* equal strings score 100 in every ratio, and have similarity 1.0
FuzzTables ==
    {[p \in FuzzPairs |-> IF p[1] = p[2] THEN <<100, 100, 100, 100>> ELSE g[p]] :
        g \in [FuzzPairs -> FuzzyScoreLists]}

SimilarityTables ==
    {[p \in SimilarityPairs |-> IF p[1] = p[2] THEN 100 ELSE g[p]] :
        g \in [SimilarityPairs -> SimilarityValues]}

-----------------------------------------------------------------------------
(* map_concepts as a state machine *)

Init ==
    /\ pc = "idle"
    /\ fuzz \in FuzzTables
    /\ similarity \in SimilarityTables
    /\ extract_one = << >>
    /\ IdleMap
    /\ IdleKnowledgeBase
    /\ IdleExtract
    /\ IdleAssemble
    /\ IdleFront
    /\ IdleText
    /\ \E b \in {"installed", "unavailable"} : InitLoader(b)

\* map_concepts: load_nlp_model() (line 141), then the body from the extracted
\* facts on; an exception of the loader ends the call
MapConceptsCall(extracted_facts) ==
    /\ pc = "idle"
    /\ pc' = "returned"
    /\ Loaded("case_context.extract", load_nlp_model)
    /\ error' = load_nlp_model.error
    /\ IF load_nlp_model.error = "none"
       THEN /\ facts' = extracted_facts
            /\ all_matches' =
                   collect_matches(extracted_facts, FUZZY_THRESHOLD, SEMANTIC_THRESHOLD)
            /\ unique_matches' = map_concepts(extracted_facts)
            /\ semantic_calls' =
                   UNION {get_matches_semantic_calls(extracted_facts[i].text) :
                            i \in 1..Len(extracted_facts)}
       ELSE /\ facts' = << >>
            /\ all_matches' = << >>
            /\ unique_matches' = << >>
            /\ semantic_calls' = {}
    /\ UNCHANGED <<front_vars, oracle_vars, kb_vars, extract_vars, text_vars>>

\* a call of map_concepts by a caller other than assemble_answer
MapFacts(extracted_facts) ==
    /\ MapConceptsCall(extracted_facts)
    /\ UNCHANGED assemble_vars

\* map_concepts(facts) with a list of ExtractedFact
MapConceptsList ==
    \E fs \in SeqUpTo(FactUniverse, MaxFacts) : MapFacts(fs)

\* map_concepts(facts) with a dictionary of texts by source
MapConceptsDict ==
    \E entries \in SeqUpTo(DictEntries, MaxDictEntries) :
        /\ DistinctKeys(entries)
        /\ MapFacts(facts_of_dict(entries))

\* The caller is done with the result: the lists live for one request.
Discard ==
    /\ pc = "returned"
    /\ pc' = "idle"
    /\ facts' = << >>
    /\ all_matches' = << >>
    /\ unique_matches' = << >>
    /\ semantic_calls' = {}
    /\ error' = "none"
    /\ UNCHANGED <<front_vars, oracle_vars, kb_vars, loader_vars, extract_vars, assemble_vars,
                   text_vars>>

Next == MapConceptsList \/ MapConceptsDict \/ Discard

Spec == Init /\ [][Next]_vars

\* map_concepts on facts of the case text alone: the source tag of a fact is
\* not read by map_concepts, so the number of matches does not depend on it
MapConceptsCase ==
    \E fs \in SeqUpTo({f \in FactUniverse : f.source = "case"}, MaxFacts) : MapFacts(fs)

NextThresholds == MapConceptsCase \/ Discard

SpecThresholds == Init /\ [][NextThresholds]_vars

-----------------------------------------------------------------------------
(* case_context/assemble.py: assemble_answer; case_context/template_loader.py *)

\* the values of top_n: None (the empty sequence), or an integer
TopNValues == {<< >>} \cup {<<n>> : n \in 0..MaxTopN}

\* a text of a request, as nlp() sees it: empty, or a text with one noun chunk
AssembleTexts ==
    {[noun_chunks |-> n, verbs |-> << >>] : n \in SeqUpTo(FactTexts, 1)}

\* lines 108-113: the dictionary of texts, "" for a text that is not given
facts_dict(case_text, question_text, instructions_text, user_inputs_text) ==
    << [source |-> "case_text", is_str |-> TRUE,
        noun_chunks |-> case_text.noun_chunks, verbs |-> case_text.verbs],
       [source |-> "question_text", is_str |-> TRUE,
        noun_chunks |-> question_text.noun_chunks, verbs |-> question_text.verbs],
       [source |-> "instructions_text", is_str |-> TRUE,
        noun_chunks |-> instructions_text.noun_chunks, verbs |-> instructions_text.verbs],
       [source |-> "user_inputs_text", is_str |-> TRUE,
        noun_chunks |-> user_inputs_text.noun_chunks, verbs |-> user_inputs_text.verbs] >>

\* lines 117-118: [m for m in matches if m.source == "question"]
filter_question(matches, flag) ==
    IF flag THEN SelectSeq(matches, LAMBDA m : m.source = "question") ELSE matches

\* "if top_n:" is true of an integer other than 0
truthy(n) == n # << >> /\ n[1] # 0

\* lines 119-120: matches[:top_n]
cap_top_n(matches, n) ==
    IF truthy(n) /\ n[1] < Len(matches) THEN SubSeq(matches, 1, n[1]) ELSE matches

\* a template without the test of the matches
render_always_concepts(matches) == "concepts"

\* the answer template: "{% if matches %}" renders the concepts, "{% else %}"
\* the message "No strategic concepts were detected. ..."
render(matches) ==
    IF matches # << >> THEN "concepts" ELSE "no concepts detected"

InitAssemble ==
    /\ pc = "idle"
    /\ fuzz \in FuzzTables
    /\ similarity \in SimilarityTables
    /\ extract_one = << >>
    /\ IdleMap
    /\ IdleKnowledgeBase
    /\ IdleExtract
    /\ IdleAssemble
    /\ IdleFront
    /\ IdleText
    /\ \E b \in {"installed", "unavailable"} : InitLoader(b)

\* assemble_answer without templates: lines 107-136
AssembleAnswer ==
    \E case_text, question_text \in AssembleTexts :
        \E flag \in BOOLEAN : \E n \in TopNValues :
            LET empty_text == [noun_chunks |-> << >>, verbs |-> << >>]
                entries == facts_dict(case_text, question_text, empty_text, empty_text)
                extracted_facts == facts_of_dict(entries)
                matches == cap_top_n(filter_question(map_concepts(extracted_facts), flag), n)
            IN  /\ MapConceptsCall(extracted_facts)
                /\ request_texts' = entries
                /\ only_question' = flag
                /\ top_n' = n
                /\ IF load_nlp_model.error = "none"
                   THEN /\ rendered' = matches
                        /\ answer' = render(matches)
                   ELSE /\ rendered' = << >>
                        /\ answer' = "none"

\* the caller is done with the answer
DiscardAnswer ==
    /\ pc = "returned"
    /\ pc' = "idle"
    /\ facts' = << >>
    /\ all_matches' = << >>
    /\ unique_matches' = << >>
    /\ semantic_calls' = {}
    /\ request_texts' = << >>
    /\ only_question' = FALSE
    /\ top_n' = << >>
    /\ rendered' = << >>
    /\ answer' = "none"
    /\ error' = "none"
    /\ UNCHANGED <<front_vars, oracle_vars, kb_vars, loader_vars, extract_vars, text_vars>>

NextAssemble == AssembleAnswer \/ DiscardAnswer

SpecAssemble == InitAssemble /\ [][NextAssemble]_vars

-----------------------------------------------------------------------------
(* case_context/assemble.py: build_concept_sentences *)

s_STRATEGIC_CONCEPTS == <<"S", "T", "R", "A", "T", "E", "G", "I", "C", "_", "C", "O", "N", "C", "E", "P", "T", "S">>
s_CategoryA == <<"C", "a", "t", "e", "g", "o", "r", "y", "A">>
s_Value_Chain == <<"V", "a", "l", "u", "e", " ", "C", "h", "a", "i", "n">>
s_Porter == <<"P", "o", "r", "t", "e", "r">>
s_StandardWidget == <<"S", "t", "a", "n", "d", "a", "r", "d", "W", "i", "d", "g", "e", "t">>
s_In_this_case_the == <<"I", "n", " ", "t", "h", "i", "s", " ", "c", "a", "s", "e", ",", " ", "t", "h", "e", " ">>
s_include == <<" ", "i", "n", "c", "l", "u", "d", "e", ":", " ">>
s_No_strategic_concepts == <<"N", "o", " ", "s", "t", "r", "a", "t", "e", "g", "i", "c", " ", "c", "o", "n", "c", "e", "p", "t", "s", " ", "w", "e", "r", "e", " ", "d", "e", "t", "e", "c", "t", "e", "d", ".">>

\* str.upper() on one character
UpperChar ==
    [c \in Chars |->
        IF \E i \in 1..Len(LowerCase) : LowerCase[i] = c
        THEN UpperCase[CHOOSE i \in 1..Len(LowerCase) : LowerCase[i] = c]
        ELSE c]

is_letter(c) ==
    \E i \in 1..Len(LowerCase) : LowerCase[i] = c \/ UpperCase[i] = c

\* str.replace("_", " ")
replace_underscores(text) ==
    [i \in 1..Len(text) |-> IF text[i] = "_" THEN " " ELSE text[i]]

\* str.title(): a letter that follows a letter is lower-cased, any other letter
\* is upper-cased
title(text) ==
    [i \in 1..Len(text) |->
        IF i > 1 /\ is_letter(text[i - 1]) THEN LowerChar[text[i]] ELSE UpperChar[text[i]]]

\* category.replace("_", " ").title().lower()
category_name(category) == lower(title(replace_underscores(category)))

\* a concept with its theory in parentheses if concept.get("theory") is truthy;
\* a theory of None is the empty sequence
formatted_concept(concept) ==
    IF concept.theory # << >>
    THEN concept.concept \o <<" ", "(">> \o concept.theory \o <<")">>
    ELSE concept.concept

\* separator.join(items)
RECURSIVE join(_, _)
join(separator, items) ==
    IF items = << >> THEN << >>
    ELSE IF Len(items) = 1 THEN items[1]
    ELSE items[1] \o separator \o join(separator, Tail(items))

\* the sentence of one category
concept_sentence(category, concepts) ==
    s_In_this_case_the \o category_name(category) \o s_include
    \o join(<<",", " ">>, [i \in 1..Len(concepts) |-> formatted_concept(concepts[i])])
    \o <<".">>

\* the loop over mapped_concepts.items(): a category without concepts is skipped
RECURSIVE concept_sentences(_)
concept_sentences(items) ==
    IF items = << >> THEN << >>
    ELSE (IF items[1][2] = << >> THEN << >>
          ELSE <<concept_sentence(items[1][1], items[1][2])>>)
         \o concept_sentences(Tail(items))

\* build_concept_sentences(mapped_concepts), the dictionary given as the
\* sequence of its (category, concepts) items
build_concept_sentences(items) ==
    IF items = << >> THEN s_No_strategic_concepts
    ELSE IF concept_sentences(items) # << >>
         THEN join(<<" ">>, concept_sentences(items))
         ELSE s_No_strategic_concepts

\* the concepts of the requests
ConceptUniverse ==
    {[concept |-> s_Value_Chain, theory |-> s_Porter],
     [concept |-> s_StandardWidget, theory |-> << >>]}

\* the dictionaries of the requests: each category at most once
CategoryItems ==
    {items \in SeqUpTo({s_STRATEGIC_CONCEPTS, s_CategoryA}
                       \X SeqUpTo(ConceptUniverse, MaxConcepts), 2) :
        \A i, j \in 1..Len(items) : items[i][1] = items[j][1] => i = j}

InitSentences ==
    /\ pc = "idle"
    /\ fuzz = << >>
    /\ similarity = << >>
    /\ extract_one = << >>
    /\ IdleMap
    /\ IdleKnowledgeBase
    /\ IdleExtract
    /\ IdleAssemble
    /\ IdleFront
    /\ raw_text = << >>
    /\ normalised = << >>
    /\ renormalised = << >>
    /\ categories \in CategoryItems
    /\ sentences = << >>
    /\ InitLoader("installed")

\* build_concept_sentences(mapped_concepts)
BuildConceptSentences ==
    /\ pc = "idle"
    /\ pc' = "built"
    /\ sentences' = build_concept_sentences(categories)
    /\ UNCHANGED <<front_vars, error, raw_text, normalised, renormalised, categories, oracle_vars,
                   map_vars, kb_vars, loader_vars, extract_vars, assemble_vars>>

NextSentences == BuildConceptSentences

SpecSentences == InitSentences /\ [][NextSentences]_vars

-----------------------------------------------------------------------------
(* case_context/map.py: map_concepts_old *)

\* "semantic_score >= threshold" where semantic_score is the raw cosine of
\* Doc.similarity: the model carries the cosine in per cent, and
\* p / 100 >= threshold exactly if p >= 100 * threshold
raw_cosine_at_least(similarity_percent, threshold) ==
    similarity_percent >= 100 * threshold

\* the threshold test that a (phrase, concept) pair passes in map_concepts_old:
\* "fuzzy", "semantic" or "none"
old_tier(phrase, concept_name) ==
    IF fuzzy_score_of(phrase, concept_name) >= FUZZY_THRESHOLD THEN "fuzzy"
    ELSE IF raw_cosine_at_least(similarity[<<lowered[phrase], lowered[concept_name]>>],
                                SEMANTIC_THRESHOLD)
         THEN "semantic"
    ELSE "none"

\* map_concepts_old on the noun chunks and business verbs of an ExtractedFacts.
\* ConceptMatch(concept=, score=, definition=) lacks the required field
\* 'source', so the first pair that passes a test ends the call with TypeError.
map_concepts_old(phrases) ==
    IF \E k \in 1..Len(phrases) : \E i \in 1..Len(CONCEPTS) :
          old_tier(phrases[k], CONCEPTS[i]) # "none"
    THEN [matches |-> << >>, error |-> "TypeError"]
    ELSE [matches |-> sort_by_score(<< >>), error |-> "none"]

\* what Doc.similarity returns for the lower-cased phrases and concept names
OldSimilarityTables ==
    [{<<lowered[t], lowered[c]>> : t \in FactTexts, c \in Range(CONCEPTS)} -> SimilarityValues]

InitOld ==
    /\ pc = "idle"
    /\ fuzz = << >>
    /\ similarity = << >>
    /\ extract_one = << >>
    /\ IdleMap
    /\ IdleKnowledgeBase
    /\ IdleExtract
    /\ IdleAssemble
    /\ IdleFront
    /\ IdleText
    /\ \E b \in {"installed", "unavailable"} : InitLoader(b)

\* map_concepts_old(facts), with the answers the libraries give in this call
MapConceptsOld ==
    \E noun_chunks \in SeqUpTo(FactTexts, MaxFacts) :
        \E scores \in FuzzTables : \E sims \in OldSimilarityTables :
            /\ pc = "idle"
            /\ pc' = "returned"
            /\ Loaded("case_context.extract", load_nlp_model)
            /\ IF load_nlp_model.error # "none"
               THEN /\ error' = load_nlp_model.error
                    /\ facts' = << >>
                    /\ fuzz' = << >>
                    /\ similarity' = << >>
                    /\ unique_matches' = << >>
               ELSE /\ facts' = facts_of(noun_chunks, "case", "noun_chunk")
                    /\ fuzz' = scores
                    /\ similarity' = sims
                    /\ error' = map_concepts_old(noun_chunks)'.error
                    /\ unique_matches' = map_concepts_old(noun_chunks)'.matches
            /\ UNCHANGED <<front_vars, all_matches, semantic_calls, extract_one, kb_vars, extract_vars,
                           assemble_vars, text_vars>>

\* the caller is done with the result of map_concepts_old
DiscardOld ==
    /\ pc = "returned"
    /\ pc' = "idle"
    /\ facts' = << >>
    /\ fuzz' = << >>
    /\ similarity' = << >>
    /\ unique_matches' = << >>
    /\ error' = "none"
    /\ UNCHANGED <<front_vars, all_matches, semantic_calls, extract_one, kb_vars, loader_vars,
                   extract_vars, assemble_vars, text_vars>>

NextOld == MapConceptsOld \/ DiscardOld

SpecOld == InitOld /\ [][NextOld]_vars

-----------------------------------------------------------------------------
(* The aggregation step of map_concepts (lines 178-188) on its own: the       *)
(* candidates are any ConceptMatch records, with any source tag.              *)

\* the scores of the candidates
CandidateScores == {55, 80}

CandidateUniverse ==
    {[concept |-> KNOWLEDGE_BASE[c].name,
      score |-> sc,
      definition |-> KNOWLEDGE_BASE[c].definition,
      source |-> src,
      matched_text |-> t] :
        c \in 1..Len(KNOWLEDGE_BASE), sc \in CandidateScores, src \in Sources,
        t \in FactTexts}

InitAggregate ==
    /\ pc = "idle"
    /\ fuzz = << >>
    /\ similarity = << >>
    /\ extract_one = << >>
    /\ IdleMap
    /\ IdleKnowledgeBase
    /\ IdleExtract
    /\ IdleAssemble
    /\ IdleFront
    /\ IdleText
    /\ InitLoader("installed")

\* lines 178-188 applied to the candidates held in all_matches
Aggregate ==
    \E candidates \in SeqUpTo(CandidateUniverse, MaxCandidates) :
        /\ pc = "idle"
        /\ pc' = "returned"
        /\ all_matches' = candidates
        /\ unique_matches' = aggregate(candidates)
        /\ UNCHANGED <<front_vars, facts, semantic_calls, error, oracle_vars, kb_vars, loader_vars,
                       extract_vars, assemble_vars, text_vars>>

NextAggregate == Aggregate \/ Discard

SpecAggregate == InitAggregate /\ [][NextAggregate]_vars

-----------------------------------------------------------------------------
(* Pipeline/extract.py *)

\* _normalise: lower-case, and replace every run of whitespace by one space
RECURSIVE collapse_whitespace(_, _)
collapse_whitespace(text, in_run) ==
    IF text = << >> THEN << >>
    ELSE IF Head(text) \in Whitespace
         THEN (IF in_run THEN << >> ELSE <<" ">>) \o collapse_whitespace(Tail(text), TRUE)
         ELSE <<Head(text)>> \o collapse_whitespace(Tail(text), FALSE)

\* a normaliser that replaces each pair of whitespace characters by one space
RECURSIVE replace_pairs(_)
replace_pairs(text) ==
    IF Len(text) < 2 THEN text
    ELSE IF text[1] \in Whitespace /\ text[2] \in Whitespace
         THEN <<" ">> \o replace_pairs(SubSeq(text, 3, Len(text)))
         ELSE <<text[1]>> \o replace_pairs(Tail(text))

normalise_replace_pairs(text) == replace_pairs(lower(text))

normalise(text) == collapse_whitespace(lower(text), FALSE)

\* the characters of the texts handed to _normalise
NormaliseChars == {"A", "a", " ", "\t"}

InitNormalise ==
    /\ pc = "idle"
    /\ fuzz = << >>
    /\ similarity = << >>
    /\ extract_one = << >>
    /\ IdleMap
    /\ IdleKnowledgeBase
    /\ IdleExtract
    /\ IdleAssemble
    /\ IdleFront
    /\ raw_text \in SeqUpTo(NormaliseChars, MaxTextLen)
    /\ normalised = << >>
    /\ renormalised = << >>
    /\ categories = << >>
    /\ sentences = << >>
    /\ InitLoader("installed")

\* _normalise(text)
Normalise ==
    /\ pc = "idle"
    /\ pc' = "normalised"
    /\ normalised' = normalise(raw_text)
    /\ UNCHANGED <<front_vars, error, raw_text, renormalised, categories, sentences, oracle_vars,
                   map_vars, kb_vars, loader_vars, extract_vars, assemble_vars>>

\* _normalise applied to its own result
Renormalise ==
    /\ pc = "normalised"
    /\ pc' = "renormalised"
    /\ renormalised' = normalise(normalised)
    /\ UNCHANGED <<front_vars, error, raw_text, normalised, categories, sentences, oracle_vars,
                   map_vars, kb_vars, loader_vars, extract_vars, assemble_vars>>

NextNormalise == Normalise \/ Renormalise

SpecNormalise == InitNormalise /\ [][NextNormalise]_vars

-----------------------------------------------------------------------------
(* case_context/src/knowledge_base.py, case_context/src/map.py *)

\* Two of the entries of this resolver's KNOWLEDGE_BASE, in the table's order;
\* a theory of None is "None".
kb_KNOWLEDGE_BASE ==
    << [key |-> s_transaction_cost, category |-> "Strategic_Theory", theory |-> "TCE"],
       [key |-> s_network_effects, category |-> "Business_Concept", theory |-> "None"] >>

\* kb_choices = list(KNOWLEDGE_BASE.keys())
kb_choices == [i \in 1..Len(kb_KNOWLEDGE_BASE) |-> kb_KNOWLEDGE_BASE[i].key]

\* KNOWLEDGE_BASE[key]
kb_concept(key) ==
    kb_KNOWLEDGE_BASE[CHOOSE i \in 1..Len(kb_KNOWLEDGE_BASE) : kb_KNOWLEDGE_BASE[i].key = key]

\* FUZZY_THRESHOLD of case_context/src/map.py, on the 0-100 scale
kb_FUZZY_THRESHOLD == 70

\* SEMANTIC_THRESHOLD of case_context/src/map.py, 0.65, in per cent
kb_SEMANTIC_THRESHOLD == 65

\* confidence 1.0, in per cent
FULL_CONFIDENCE == 100

\* str.strip(): the text without its leading and trailing whitespace
RECURSIVE lstrip(_)
lstrip(text) ==
    IF text # << >> /\ Head(text) \in Whitespace THEN lstrip(Tail(text)) ELSE text

RECURSIVE rstrip(_)
rstrip(text) ==
    IF text # << >> /\ text[Len(text)] \in Whitespace
    THEN rstrip(SubSeq(text, 1, Len(text) - 1))
    ELSE text

strip(text) == rstrip(lstrip(text))

\* fuzzy_match_term: the best key and its token_sort_ratio, from extractOne
fuzzy_match_term(term, choices) == extract_one[lower(strip(term))]

\* max(..., key=lambda kv: kv[1]) over the keys from the n-th on: the first
\* key of the highest similarity
RECURSIVE best_similarity(_, _, _)
best_similarity(term_clean, choices, n) ==
    LET here == <<choices[n], similarity[<<term_clean, choices[n]>>]>>
    IN  IF n = Len(choices) THEN here
        ELSE LET rest == best_similarity(term_clean, choices, n + 1)
             IN  IF rest[2] > here[2] THEN rest ELSE here

\* semantic_match_term: the best key and its similarity
semantic_match_term(term, choices) == best_similarity(strip(term), choices, 1)

\* the tier that settles a term: "exact", "fuzzy", "semantic" or "none"
tier_of(term) ==
    LET term_lower == lowered[term]
    IN  IF \E i \in 1..Len(kb_choices) : kb_choices[i] = term_lower THEN "exact"
        ELSE IF fuzzy_match_term(term_lower, kb_choices)[2] >= kb_FUZZY_THRESHOLD THEN "fuzzy"
        ELSE IF semantic_match_term(term_lower, kb_choices)[2] >= kb_SEMANTIC_THRESHOLD
             THEN "semantic"
        ELSE "none"

\* the MappedConcept that the loop body of map_to_knowledge_base appends
mapped_concept(term) ==
    LET term_lower == lowered[term]
        tier == tier_of(term)
    IN  IF tier = "exact"
        THEN [concept |-> term,
              category |-> kb_concept(term_lower).category,
              theory |-> kb_concept(term_lower).theory,
              confidence |-> FULL_CONFIDENCE]
        ELSE IF tier = "fuzzy"
        THEN LET hit == fuzzy_match_term(term_lower, kb_choices)
             IN  [concept |-> term,
                  category |-> kb_concept(hit[1]).category,
                  theory |-> kb_concept(hit[1]).theory,
                  confidence |-> hit[2]]
        ELSE IF tier = "semantic"
        THEN LET hit == semantic_match_term(term_lower, kb_choices)
             IN  [concept |-> term,
                  category |-> kb_concept(hit[1]).category,
                  theory |-> kb_concept(hit[1]).theory,
                  confidence |-> hit[2]]
        ELSE [concept |-> term,
              category |-> "Business_Concept",
              theory |-> "None",
              confidence |-> 0]

\* map_to_knowledge_base: one entry per term, in input order
map_to_knowledge_base(terms) == [i \in 1..Len(terms) |-> mapped_concept(terms[i])]

\* the terms map_to_knowledge_base hands to fuzzy_match_term
fuzzy_terms(terms) ==
    {terms[i] : i \in {k \in 1..Len(terms) : tier_of(terms[k]) # "exact"}}

\* the terms map_to_knowledge_base hands to semantic_match_term
semantic_terms(terms) ==
    {terms[i] : i \in {k \in 1..Len(terms) : tier_of(terms[k]) \in {"semantic", "none"}}}

\* "term_lower in KNOWLEDGE_BASE" is false
misses_exact(term) == \A i \in 1..Len(kb_choices) : kb_choices[i] # lowered[term]

\* the term misses the exact and the fuzzy tier, so that the loop body goes on
\* to load the model (lines 116-118)
reaches_semantic(term) ==
    /\ misses_exact(term)
    /\ fuzzy_match_term(lowered[term], kb_choices)[2] < kb_FUZZY_THRESHOLD

\* the terms up to the first one that reaches the semantic tier: the part of
\* the list the loop has worked on when load_nlp_model raises
RECURSIVE terms_until_load(_)
terms_until_load(terms) ==
    IF terms = << >> THEN << >>
    ELSE IF reaches_semantic(Head(terms)) THEN <<Head(terms)>>
    ELSE <<Head(terms)>> \o terms_until_load(Tail(terms))

\* the terms a caller passes
TermUniverse ==
    {s_Network_Effects, s_network__effects, s_network_externalities,
     s_purple_elephant_dancing}

\* what extractOne returns for a term that is no key: a key and its score
ExtractOneValues ==
    {<<kb_choices[i], sc>> : i \in 1..Len(kb_choices), sc \in {40, 85}}

\* what Doc.similarity returns for a term and a key, in per cent
kb_SimilarityValues == {30, 80}

\* the terms of a call that miss the exact tier, as the scorers receive them
scored_terms(terms) ==
    {lower(strip(lowered[terms[i]])) :
        i \in {k \in 1..Len(terms) :
                 \A n \in 1..Len(kb_choices) : kb_choices[n] # lowered[terms[k]]}}

InitKnowledgeBase ==
    /\ pc = "idle"
    /\ fuzz = << >>
    /\ similarity = << >>
    /\ extract_one = << >>
    /\ IdleMap
    /\ IdleKnowledgeBase
    /\ IdleExtract
    /\ IdleAssemble
    /\ IdleFront
    /\ IdleText
    /\ \E b \in {"installed", "unavailable"} : InitLoader(b)

\* token_sort_ratio compares the whitespace-separated tokens: a term whose
\* tokens are those of a key scores 100 with that key
ExtractOneAnswers(terms) ==
    {[t \in scored_terms(terms) |->
        IF \E n \in 1..Len(kb_choices) : kb_choices[n] = normalise(t)
        THEN <<normalise(t), 100>>
        ELSE g[t]] :
        g \in [scored_terms(terms) -> ExtractOneValues]}

\* texts of the same tokens have similarity 1.0
SimilarityAnswers(terms) ==
    {[p \in scored_terms(terms) \X Range(kb_choices) |->
        IF normalise(p[1]) = p[2] THEN 100 ELSE g[p]] :
        g \in [scored_terms(terms) \X Range(kb_choices) -> kb_SimilarityValues]}

\* The body of map_to_knowledge_base(terms), with the answers the two libraries
\* give in this call.  The model is loaded when the first term reaches the
\* semantic tier; an exception of the loader ends the call.
MapToKnowledgeBaseCall(terms, answers, sims) ==
    /\ extract_one' = answers
    /\ extracted_terms' = terms
    /\ IF \A k \in 1..Len(terms) : ~reaches_semantic(terms[k])'
       THEN /\ UNCHANGED loader_vars
            /\ error' = "none"
            /\ similarity' = sims
            /\ mapped_concepts' = map_to_knowledge_base(terms)'
            /\ fuzzy_calls' = fuzzy_terms(terms)'
            /\ kb_semantic_calls' = semantic_terms(terms)'
       ELSE /\ Loaded("extract", kb_load_nlp_model)
            /\ error' = kb_load_nlp_model.error
            /\ IF kb_load_nlp_model.error = "none"
               THEN /\ similarity' = sims
                    /\ mapped_concepts' = map_to_knowledge_base(terms)'
                    /\ fuzzy_calls' = fuzzy_terms(terms)'
                    /\ kb_semantic_calls' = semantic_terms(terms)'
               ELSE /\ similarity' = << >>
                    /\ mapped_concepts' = << >>
                    /\ fuzzy_calls' =
                           {terms[k] : k \in {n \in 1..Len(terms_until_load(terms)') :
                                                 misses_exact(terms[n])}}
                    /\ kb_semantic_calls' = {}

\* map_to_knowledge_base(extracted_terms)
MapToKnowledgeBase ==
    \E terms \in SeqUpTo(TermUniverse, MaxTerms) :
        \E answers \in ExtractOneAnswers(terms) :
            \E sims \in SimilarityAnswers(terms) :
                /\ pc = "idle"
                /\ pc' = "returned"
                /\ MapToKnowledgeBaseCall(terms, answers, sims)
                /\ UNCHANGED <<front_vars, fuzz, map_vars, extract_vars, assemble_vars,
                               text_vars>>

\* the caller is done with the result of map_to_knowledge_base
DiscardMapped ==
    /\ pc = "returned"
    /\ pc' = "idle"
    /\ extract_one' = << >>
    /\ similarity' = << >>
    /\ extracted_terms' = << >>
    /\ mapped_concepts' = << >>
    /\ fuzzy_calls' = {}
    /\ kb_semantic_calls' = {}
    /\ error' = "none"
    /\ UNCHANGED <<front_vars, fuzz, map_vars, loader_vars, extract_vars, assemble_vars, text_vars>>

NextKnowledgeBase == MapToKnowledgeBase \/ DiscardMapped

SpecKnowledgeBase == InitKnowledgeBase /\ [][NextKnowledgeBase]_vars

-----------------------------------------------------------------------------
(* case_context/extract.py: extract_facts, process_case_text *)

\* An input text, as nlp() sees it: empty, or longer than nlp.max_length (nlp
\* raises ValueError), or a text with the noun chunks and business verbs given.
InputTexts ==
    {[empty |-> TRUE, oversized |-> FALSE, noun_chunks |-> << >>, business_verbs |-> << >>],
     [empty |-> FALSE, oversized |-> TRUE, noun_chunks |-> << >>, business_verbs |-> << >>]}
    \cup {[empty |-> FALSE, oversized |-> FALSE, noun_chunks |-> <<t>>,
           business_verbs |-> << >>] : t \in FactTexts}

\* extract_facts with the model loaded: the ExtractedFacts of a text (the named
\* entities are left out)
extract_facts(input, source) ==
    [noun_chunks |-> input.noun_chunks,
     business_verbs |-> input.business_verbs,
     source |-> source]

\* the loop of process_case_text with the model loaded: the facts of the
\* non-empty inputs in order; the first exception of nlp() ends the call
RECURSIVE extract_inputs(_)
extract_inputs(inputs) ==
    IF inputs = << >> THEN [facts |-> << >>, error |-> "none"]
    ELSE IF Head(inputs).text.empty THEN extract_inputs(Tail(inputs))
    ELSE IF Head(inputs).text.oversized THEN [facts |-> << >>, error |-> "ValueError"]
    ELSE LET rest == extract_inputs(Tail(inputs))
         IN  IF rest.error # "none" THEN rest
             ELSE [facts |-> <<extract_facts(Head(inputs).text, Head(inputs).source)>>
                              \o rest.facts,
                   error |-> "none"]

\* process_case_text(case_text, question_text, user_inputs_text)
process_case_text(case_text, question_text, user_inputs_text) ==
    extract_inputs(<<[source |-> "case", text |-> case_text],
                     [source |-> "question", text |-> question_text],
                     [source |-> "user_inputs", text |-> user_inputs_text]>>)

InitExtract ==
    /\ pc = "idle"
    /\ fuzz = << >>
    /\ similarity = << >>
    /\ extract_one = << >>
    /\ IdleMap
    /\ IdleKnowledgeBase
    /\ IdleExtract
    /\ IdleAssemble
    /\ IdleFront
    /\ IdleText
    /\ \E b \in Backends : InitLoader(b)

\* process_case_text: extract_facts loads the model for the first non-empty
\* input (the later calls of the request find it cached), then runs nlp()
ProcessCaseText ==
    \E case_text, question_text, user_inputs_text \in InputTexts :
        LET result == process_case_text(case_text, question_text, user_inputs_text)
        IN  /\ pc = "idle"
            /\ pc' = "returned"
            /\ case_inputs' = <<case_text, question_text, user_inputs_text>>
            /\ IF case_text.empty /\ question_text.empty /\ user_inputs_text.empty
               THEN /\ UNCHANGED loader_vars
                    /\ error' = "none"
                    /\ extracted' = << >>
               ELSE /\ Loaded("case_context.extract", load_nlp_model)
                    /\ IF load_nlp_model.error # "none"
                       THEN /\ error' = load_nlp_model.error
                            /\ extracted' = << >>
                       ELSE /\ error' = result.error
                            /\ extracted' = result.facts
            /\ UNCHANGED <<front_vars, oracle_vars, map_vars, kb_vars, assemble_vars, text_vars>>

\* the caller is done with the result of process_case_text
DiscardExtracted ==
    /\ pc = "returned"
    /\ pc' = "idle"
    /\ case_inputs' = << >>
    /\ extracted' = << >>
    /\ error' = "none"
    /\ UNCHANGED <<front_vars, oracle_vars, map_vars, kb_vars, loader_vars, assemble_vars, text_vars>>

\* a call of load_nlp_model of case_context/extract.py on its own, as the test
\* fixtures make it
LoadNlpModel ==
    /\ pc = "idle"
    /\ Loaded("case_context.extract", load_nlp_model)
    /\ error' = load_nlp_model.error
    /\ UNCHANGED <<front_vars, pc, oracle_vars, map_vars, kb_vars, extract_vars, assemble_vars,
                   text_vars>>

\* a call of load_nlp_model of the extract module on its own
KbLoadNlpModel ==
    /\ pc = "idle"
    /\ Loaded("extract", kb_load_nlp_model)
    /\ error' = kb_load_nlp_model.error
    /\ UNCHANGED <<front_vars, pc, oracle_vars, map_vars, kb_vars, extract_vars, assemble_vars,
                   text_vars>>

\* the user installs the model package, as the loader's error message asks
\* ("Please run: python -m spacy download ...")
InstallModel ==
    /\ pc = "idle"
    /\ backend = "unavailable"
    /\ backend' = "installed"
    /\ UNCHANGED <<front_vars, pc, error, nlp, load_count, returned_models, oracle_vars,
                   map_vars, kb_vars, extract_vars, assemble_vars, text_vars>>

NextExtract ==
    ProcessCaseText \/ DiscardExtracted \/ LoadNlpModel \/ KbLoadNlpModel \/ InstallModel

SpecExtract == InitExtract /\ [][NextExtract]_vars

-----------------------------------------------------------------------------
(* case_context/assemble.py: assemble_answer with templates, generate_answer *)

\* An answer is carried as the sequence of its words (what answer.split()
\* gives), a section as the sequence of the words of its string; the ", " that
\* joins two concept names is the token "," of its own, which is no word.

\* the placeholder of the analysis section
CONCEPT_SENTENCES == "{{CONCEPT_SENTENCES}}"

\* the theories of the templates
TheoryNames == {"TCE", "Platform"}

\* the sections of a theory's template, as select_templates returns them
theory_template(theory) ==
    IF theory = "TCE"
    THEN [intro |-> <<"Transaction", "Cost", "Economics", "(TCE)">>,
          analysis |-> <<CONCEPT_SENTENCES, "These", "factors">>,
          conclusion |-> <<"In", "conclusion,", "TCE">>]
    ELSE [intro |-> <<"Platform", "theory", "examines">>,
          analysis |-> <<CONCEPT_SENTENCES, "These", "platform", "dynamics">>,
          conclusion |-> <<"In", "conclusion,", "platform", "theory">>]

\* a template without an intro section
analysis_only(theory) == [analysis |-> theory_template(theory).analysis]

\* the template dictionaries a caller passes: <<theory, template>> pairs in
\* the order of insertion, no theory twice
TemplateBundles ==
    {bundle \in SeqUpTo({<<t, theory_template(t)>> : t \in TheoryNames}
                        \cup {<<"TCE", analysis_only("TCE")>>}, 2) :
        \A i, j \in 1..Len(bundle) : bundle[i][1] = bundle[j][1] => i = j}

\* the mapped concepts a caller passes: <<category, concepts>> pairs
w_transaction_cost == [concept |-> <<"transaction", "cost">>, theory |-> "TCE"]

w_network_effects == [concept |-> <<"network", "effects">>, theory |-> "None"]

MappedConceptSets ==
    { << >>,
      <<<<"Strategic_Theory", <<w_transaction_cost>>>>>>,
      <<<<"Business_Concept", <<w_network_effects>>>>>>,
      <<<<"Business_Concept", <<w_network_effects>>>>,
        <<"Strategic_Theory", <<w_transaction_cost>>>>>>,
      <<<<"Strategic_Theory", <<w_transaction_cost, w_network_effects>>>>>>,
      <<<<"Industry_Context", << >>>>>> }

\* the style instructions: None, or a one-word instruction
StyleValues == {<< >>, <<"formal">>}

\* the word limits a caller passes to generate_answer, << >> if it passes none
WordLimitValues == {<< >>} \cup {<<n>> : n \in {MinWordLimit, MaxWordLimit}}

\* lines 89-93: the intro and the analysis section of each template, in the
\* order of the dictionary
RECURSIVE template_sections(_)
template_sections(bundle) ==
    IF bundle = << >> THEN << >>
    ELSE LET template == Head(bundle)[2]
         IN  (IF "intro" \in DOMAIN template THEN template.intro ELSE << >>)
             \o (IF "analysis" \in DOMAIN template THEN template.analysis ELSE << >>)
             \o template_sections(Tail(bundle))

\* line 100: ", ".join(concept_list), concept_list the names of the concepts
RECURSIVE join_concepts(_)
join_concepts(concept_list) ==
    IF concept_list = << >> THEN << >>
    ELSE IF Len(concept_list) = 1 THEN Head(concept_list).concept
    ELSE Head(concept_list).concept \o <<",">> \o join_concepts(Tail(concept_list))

\* lines 97-100: one section per category that has concepts
RECURSIVE evidence_sections(_)
evidence_sections(mapped) ==
    IF mapped = << >> THEN << >>
    ELSE join_concepts(Head(mapped)[2]) \o evidence_sections(Tail(mapped))

\* lines 79-105: the answer built from the templates
assemble_from_templates(bundle, mapped, style) ==
    (IF style # << >> THEN <<"REVISED[">> \o style \o <<"]:">> ELSE << >>)
    \o <<"##", "Strategic", "Concepts">>
    \o template_sections(bundle)
    \o <<"##", "Case-Specific", "Evidence">>
    \o evidence_sections(mapped)
    \o <<"##", "Additional", "Context">>

\* len(answer.split())
word_count(words) == Len(SelectSeq(words, LAMBDA w : w # ","))

\* the signature of assemble_answer (lines 50-60) has no word_limit parameter:
\* generate_answer(*args, **kwargs) hands the keyword on and the call raises
accepts_keywords(limit) == limit = << >>

InitTemplates ==
    /\ pc = "idle"
    /\ fuzz = << >>
    /\ similarity = << >>
    /\ extract_one = << >>
    /\ IdleMap
    /\ IdleKnowledgeBase
    /\ IdleExtract
    /\ IdleAssemble
    /\ IdleFront
    /\ IdleText
    /\ InitLoader("installed")

\* generate_answer(templates, mapped_concepts, style_instructions=..., and
\* word_limit=... if the caller passes one).  "if templates and
\* mapped_concepts" takes the branch of the templates; otherwise the texts,
\* none of which is given, go to map_concepts and the answer template.
GenerateAnswer ==
    \E bundle \in TemplateBundles : \E mapped \in MappedConceptSets :
        \E style \in StyleValues : \E limit \in WordLimitValues :
            LET empty_text == [noun_chunks |-> << >>, verbs |-> << >>]
                entries == facts_dict(empty_text, empty_text, empty_text, empty_text)
            IN  /\ pc = "idle"
                /\ pc' = "returned"
                /\ theory_templates' = bundle
                /\ concepts_by_category' = mapped
                /\ style_instructions' = style
                /\ word_limit' = limit
                /\ IF ~accepts_keywords(limit)
                   THEN /\ error' = "TypeError"
                        /\ assembled' = << >>
                        /\ UNCHANGED <<loader_vars, assemble_vars>>
                   ELSE IF bundle # << >> /\ mapped # << >>
                   THEN /\ error' = "none"
                        /\ assembled' = assemble_from_templates(bundle, mapped, style)
                        /\ UNCHANGED <<loader_vars, assemble_vars>>
                   ELSE /\ Loaded("case_context.extract", load_nlp_model)
                        /\ error' = load_nlp_model.error
                        /\ assembled' = << >>
                        /\ request_texts' = entries
                        /\ rendered' = << >>
                        /\ answer' = IF load_nlp_model.error = "none"
                                     THEN render(map_concepts(facts_of_dict(entries)))
                                     ELSE "none"
                        /\ UNCHANGED <<only_question, top_n>>
                /\ UNCHANGED <<oracle_vars, map_vars, kb_vars, extract_vars, text_vars,
                               export_vars, cli_vars, tag_vars, thread_vars,
                               categorized_concepts>>

\* the caller is done with the answer
DiscardGenerated ==
    /\ pc = "returned"
    /\ pc' = "idle"
    /\ theory_templates' = << >>
    /\ concepts_by_category' = << >>
    /\ style_instructions' = << >>
    /\ word_limit' = << >>
    /\ assembled' = << >>
    /\ request_texts' = << >>
    /\ rendered' = << >>
    /\ answer' = "none"
    /\ error' = "none"
    /\ UNCHANGED <<only_question, top_n, oracle_vars, map_vars, kb_vars, loader_vars,
                   extract_vars, text_vars, export_vars, cli_vars, tag_vars,
                   thread_vars, categorized_concepts>>

NextTemplates == GenerateAnswer \/ DiscardGenerated

SpecTemplates == InitTemplates /\ [][NextTemplates]_vars

-----------------------------------------------------------------------------
(* case_context/export.py *)

\* A text is carried as the sequence of its lines (text.split("\n")), a line
\* as a sequence of characters.  A file holds << >> when it does not exist,
\* <<"text", lines>> when write_text wrote it and <<"docx", paragraphs>> when
\* Document.save wrote it.

s_new == <<"n", "e", "w">>

s_heading_new == <<"#", "#", " ", "n", "e", "w">>

\* the lines of the texts handed to the exporters
ExportLines == {s_new, s_heading_new, << >>}

\* the texts handed to the exporters: at least one line, as split gives
ExportTexts == SeqUpTo(ExportLines, MaxLines) \ {<< >>}

\* the path handed to the exporters
ExportPaths == {"dup.md"}

\* a check of the existing file that does not read the overwrite flag
refuses_existing(exists, overwrite) == exists

\* "p.exists() and not overwrite", "not overwrite and os.path.exists(output_path)"
refuses(exists, overwrite) == exists /\ ~overwrite

\* line.count("#")
RECURSIVE count_hashes(_)
count_hashes(line) ==
    IF line = << >> THEN 0
    ELSE (IF Head(line) = "#" THEN 1 ELSE 0) + count_hashes(Tail(line))

\* line.lstrip("#")
RECURSIVE lstrip_hashes(_)
lstrip_hashes(line) ==
    IF line # << >> /\ Head(line) = "#" THEN lstrip_hashes(Tail(line)) ELSE line

\* lines 43-54: what the loop adds to the document for the i-th line (i from 0)
docx_block(line, i, add_heading) ==
    IF strip(line) = << >> THEN << >>
    ELSE IF i = 0 /\ ~add_heading THEN <<[style |-> "paragraph", level |-> 0, text |-> line]>>
    ELSE IF Head(line) = "#"
    THEN <<[style |-> "heading", level |-> count_hashes(line),
            text |-> strip(lstrip_hashes(line))]>>
    ELSE <<[style |-> "paragraph", level |-> 0, text |-> line]>>

\* lines 39-54: the document built from the lines from the i-th on
RECURSIVE docx_blocks(_, _, _)
docx_blocks(lines, i, add_heading) ==
    IF lines = << >> THEN << >>
    ELSE docx_block(Head(lines), i, add_heading)
         \o docx_blocks(Tail(lines), i + 1, add_heading)

docx_document(text, add_heading) == docx_blocks(text, 0, add_heading)

InitExport ==
    /\ pc = "idle"
    /\ fuzz = << >>
    /\ similarity = << >>
    /\ extract_one = << >>
    /\ IdleMap
    /\ IdleKnowledgeBase
    /\ IdleExtract
    /\ IdleAssemble
    /\ IdleText
    /\ IdleTemplates
    /\ IdleCli
    /\ IdleTags
    /\ IdleThreads
    /\ IdleAnalyze
    /\ files = [p \in ExportPaths |-> << >>]
    /\ export_call = << >>
    /\ InitLoader("installed")

\* export_to_markdown(answer, path, overwrite)
ExportToMarkdown ==
    \E text \in ExportTexts : \E path \in ExportPaths : \E overwrite \in BOOLEAN :
        /\ pc = "idle"
        /\ export_call' = [function |-> "export_to_markdown", text |-> text, path |-> path,
                           overwrite |-> overwrite, add_heading |-> TRUE, before |-> files]
        /\ IF refuses(files[path] # << >>, overwrite)
           THEN /\ error' = "FileExistsError"
                /\ UNCHANGED files
           ELSE /\ error' = "none"
                /\ files' = [files EXCEPT ![path] = <<"text", text>>]
        /\ UNCHANGED <<pc, oracle_vars, map_vars, kb_vars, loader_vars, extract_vars,
                       assemble_vars, text_vars, template_vars, cli_vars, tag_vars,
                       thread_vars, categorized_concepts>>

\* export_to_docx(text, output_path, overwrite, add_heading)
ExportToDocx ==
    \E text \in ExportTexts : \E path \in ExportPaths :
        \E overwrite \in BOOLEAN : \E add_heading \in BOOLEAN :
            /\ pc = "idle"
            /\ export_call' = [function |-> "export_to_docx", text |-> text, path |-> path,
                               overwrite |-> overwrite, add_heading |-> add_heading,
                               before |-> files]
            /\ IF refuses(files[path] # << >>, overwrite)
               THEN /\ error' = "FileExistsError"
                    /\ UNCHANGED files
               ELSE /\ error' = "none"
                    /\ files' = [files EXCEPT
                                   ![path] = <<"docx", docx_document(text, add_heading)>>]
            /\ UNCHANGED <<pc, oracle_vars, map_vars, kb_vars, loader_vars, extract_vars,
                           assemble_vars, text_vars, template_vars, cli_vars, tag_vars,
                           thread_vars, categorized_concepts>>

NextExport == ExportToMarkdown \/ ExportToDocx

SpecExport == InitExport /\ [][NextExport]_vars

-----------------------------------------------------------------------------
(* case_context/app.py: validate_inputs *)

\* the files that exist
ExistingFiles == {"case.txt", "question.txt"}

\* a file argument: None, the empty string, a file that exists, one that does not
FileArguments == {"None", "", "nonexistent.txt"} \cup ExistingFiles

\* a text option: None, the empty string, a text
TextArguments == {"None", "", "Direct text"}

\* the truth value of an Optional[str]
given(argument) == argument \notin {"None", ""}

\* Path(file).exists()
path_exists(file) == file \in ExistingFiles

\* a validation that looks at the files before it looks for missing input
validate_inputs_files_first(case_file, question_file, case_text, question_text) ==
    IF given(case_file) /\ given(case_text) THEN "mixed case input"
    ELSE IF given(question_file) /\ given(question_text) THEN "mixed question input"
    ELSE IF given(case_file) /\ ~path_exists(case_file) THEN "case file not found"
    ELSE IF given(question_file) /\ ~path_exists(question_file) THEN "question file not found"
    ELSE IF ~(given(case_file) \/ given(case_text)) THEN "no case input"
    ELSE IF ~(given(question_file) \/ given(question_text)) THEN "no question input"
    ELSE "none"

\* validate_inputs: the UsageError it raises, "none" if it returns
validate_inputs(case_file, question_file, case_text, question_text) ==
    IF given(case_file) /\ given(case_text) THEN "mixed case input"
    ELSE IF given(question_file) /\ given(question_text) THEN "mixed question input"
    ELSE IF ~(given(case_file) \/ given(case_text)) THEN "no case input"
    ELSE IF ~(given(question_file) \/ given(question_text)) THEN "no question input"
    ELSE IF given(case_file) /\ ~path_exists(case_file) THEN "case file not found"
    ELSE IF given(question_file) /\ ~path_exists(question_file) THEN "question file not found"
    ELSE "none"

InitCli ==
    /\ pc = "idle"
    /\ fuzz = << >>
    /\ similarity = << >>
    /\ extract_one = << >>
    /\ IdleMap
    /\ IdleKnowledgeBase
    /\ IdleExtract
    /\ IdleAssemble
    /\ IdleFront
    /\ IdleText
    /\ InitLoader("installed")

\* validate_inputs(case_file, question_file, case_text, question_text)
ValidateInputs ==
    \E case_file, question_file \in FileArguments :
        \E case_text, question_text \in TextArguments :
            /\ pc = "idle"
            /\ cli_args' = [case_file |-> case_file, question_file |-> question_file,
                            case_text |-> case_text, question_text |-> question_text]
            /\ usage_error' =
                   validate_inputs(case_file, question_file, case_text, question_text)
            /\ error' = IF usage_error' = "none" THEN "none" ELSE "UsageError"
            /\ UNCHANGED <<pc, oracle_vars, map_vars, kb_vars, loader_vars, extract_vars,
                           assemble_vars, text_vars, template_vars, export_vars, tag_vars,
                           thread_vars, categorized_concepts>>

NextCli == ValidateInputs

SpecCli == InitCli /\ [][NextCli]_vars

-----------------------------------------------------------------------------
(* load_nlp_model called from several threads *)

\* The statements of load_nlp_model are the steps of a thread: between the
\* test of the cache, spacy.load, the initialisation run and the assignment to
\* the cache another thread may run.  thread_pc[t] is "idle" outside the
\* function and otherwise the module of the loader and the statement the
\* thread is about to execute.

Threads == 1..MaxThreads

\* a thread outside load_nlp_model
outside == [at |-> "idle", module |-> "none"]

\* the thread is about to execute the statement "at" of the loader of module m
inside(m, at) == [at |-> at, module |-> m]

\* a loader that assigns the cache without the initialisation run
after_load_to_store(m) == "store"

\* what follows spacy.load: case_context/extract.py runs the initialisation
\* sentence (lines 61-67), the extract module assigns the cache at once
after_load(m) == IF m = "case_context.extract" THEN "init" ELSE "store"

\* what follows the assignment: case_context/extract.py returns its local nlp
\* (line 73), the extract module reads the cache again ("return
\* load_nlp_model.nlp", "return _nlp")
after_store(m) == IF m = "case_context.extract" THEN "done" ELSE "return"

InitThreads ==
    /\ pc = "idle"
    /\ fuzz = << >>
    /\ similarity = << >>
    /\ extract_one = << >>
    /\ IdleMap
    /\ IdleKnowledgeBase
    /\ IdleExtract
    /\ IdleAssemble
    /\ IdleText
    /\ IdleTemplates
    /\ IdleExport
    /\ IdleCli
    /\ IdleTags
    /\ IdleAnalyze
    /\ thread_pc = [t \in Threads |-> outside]
    /\ thread_nlp = [t \in Threads |-> 0]
    /\ \E b \in Backends : InitLoader(b)

\* what the steps of a thread leave alone
ThreadFrame ==
    UNCHANGED <<pc, error, oracle_vars, map_vars, kb_vars, extract_vars, assemble_vars,
                text_vars, template_vars, export_vars, cli_vars, tag_vars,
                categorized_concepts>>

\* thread t calls load_nlp_model of module m
CallLoader(t, m) ==
    /\ thread_pc[t] = outside
    /\ thread_pc' = [thread_pc EXCEPT ![t] = inside(m, "check")]
    /\ UNCHANGED <<thread_nlp, loader_vars>>
    /\ ThreadFrame

\* "if _nlp is not None: return _nlp", "if not hasattr(load_nlp_model, 'nlp')"
CheckCache(t) ==
    LET m == thread_pc[t].module
    IN  /\ thread_pc[t].at = "check"
        /\ IF is_cached(nlp[m])
           THEN /\ thread_pc' = [thread_pc EXCEPT ![t] = inside(m, "done")]
                /\ thread_nlp' = [thread_nlp EXCEPT ![t] = nlp[m]]
                /\ returned_models' = [returned_models EXCEPT ![m] = @ \cup {nlp[m]}]
           ELSE /\ thread_pc' = [thread_pc EXCEPT ![t] = inside(m, "load")]
                /\ UNCHANGED <<thread_nlp, returned_models>>
        /\ UNCHANGED <<backend, nlp, load_count>>
        /\ ThreadFrame

\* spacy.load(SPACY_MODEL) into the local variable, after download() when the
\* package is missing and case_context/extract.py is the loader
LoadModel(t) ==
    LET m == thread_pc[t].module
        loads == \/ spacy_load_succeeds(backend)
                 \/ m = "case_context.extract" /\ download_succeeds(backend)
    IN  /\ thread_pc[t].at = "load"
        /\ backend = "faulty" => load_count[m] < MaxLoads
        /\ IF loads
           THEN /\ thread_pc' = [thread_pc EXCEPT ![t] = inside(m, after_load(m))]
                /\ thread_nlp' = [thread_nlp EXCEPT ![t] = load_count[m] + 1]
                /\ load_count' = [load_count EXCEPT ![m] = @ + 1]
                /\ backend' = IF spacy_load_succeeds(backend) THEN backend ELSE "installed"
           ELSE /\ thread_pc' = [thread_pc EXCEPT ![t] = inside(m, "raised")]
                /\ UNCHANGED <<thread_nlp, load_count, backend>>
        /\ UNCHANGED <<nlp, returned_models>>
        /\ ThreadFrame

\* nlp("This is a test sentence to initialize the model.")
InitialiseModel(t) ==
    LET m == thread_pc[t].module
    IN  /\ thread_pc[t].at = "init"
        /\ IF pipeline_runs(backend)
           THEN /\ thread_pc' = [thread_pc EXCEPT ![t] = inside(m, "store")]
                /\ UNCHANGED thread_nlp
           ELSE /\ thread_pc' = [thread_pc EXCEPT ![t] = inside(m, "raised")]
                /\ thread_nlp' = [thread_nlp EXCEPT ![t] = 0]
        /\ UNCHANGED loader_vars
        /\ ThreadFrame

\* "_nlp = nlp", "load_nlp_model.nlp = nlp"; case_context/extract.py then
\* returns its local nlp
StoreModel(t) ==
    LET m == thread_pc[t].module
    IN  /\ thread_pc[t].at = "store"
        /\ nlp' = [nlp EXCEPT ![m] = thread_nlp[t]]
        /\ thread_pc' = [thread_pc EXCEPT ![t] = inside(m, after_store(m))]
        /\ returned_models' =
               IF after_store(m) = "done"
               THEN [returned_models EXCEPT ![m] = @ \cup {thread_nlp[t]}]
               ELSE returned_models
        /\ UNCHANGED <<thread_nlp, backend, load_count>>
        /\ ThreadFrame

\* "return load_nlp_model.nlp": the extract module returns what the cache holds
ReturnCached(t) ==
    LET m == thread_pc[t].module
    IN  /\ thread_pc[t].at = "return"
        /\ thread_pc' = [thread_pc EXCEPT ![t] = inside(m, "done")]
        /\ thread_nlp' = [thread_nlp EXCEPT ![t] = nlp[m]]
        /\ returned_models' = [returned_models EXCEPT ![m] = @ \cup {nlp[m]}]
        /\ UNCHANGED <<backend, nlp, load_count>>
        /\ ThreadFrame

\* the caller of thread t is done with the model, or has seen the exception
LeaveLoader(t) ==
    /\ thread_pc[t].at \in {"done", "raised"}
    /\ thread_pc' = [thread_pc EXCEPT ![t] = outside]
    /\ thread_nlp' = [thread_nlp EXCEPT ![t] = 0]
    /\ UNCHANGED loader_vars
    /\ ThreadFrame

NextThreads ==
    \E t \in Threads :
        \/ \E m \in Modules : CallLoader(t, m)
        \/ CheckCache(t)
        \/ LoadModel(t)
        \/ InitialiseModel(t)
        \/ StoreModel(t)
        \/ ReturnCached(t)
        \/ LeaveLoader(t)

SpecThreads == InitThreads /\ [][NextThreads]_vars

-----------------------------------------------------------------------------
(* Pipeline/extract.py: extract_tags; Data/knowledge_base.py *)

s_value_net == <<"v", "a", "l", "u", "e", " ", "n", "e", "t">>
s_value_network == <<"v", "a", "l", "u", "e", " ", "n", "e", "t", "w", "o", "r", "k">>
s_clt_facade == <<"c", "l", "t", " ", "f", "a", "c", "a", "d", "e">>
s_clt_facade_system == <<"c", "l", "t", " ", "f", "a", "c", "a", "d", "e", " ", "s", "y", "s", "t", "e", "m">>
s_cross_laminated_timber == <<"c", "r", "o", "s", "s", " ", "l", "a", "m", "i", "n", "a", "t", "e", "d", " ", "t", "i", "m", "b", "e", "r">>
s_clt == <<"c", "l", "t">>
s_terra == <<"t", "e", "r", "r", "a">>
s_katerra == <<"k", "a", "t", "e", "r", "r", "a">>

\* Seven of the entries of the knowledge_base table, in the table's order: for
\* each category its buckets, for each bucket its canonical terms, for each
\* canonical term its accepted paraphrases.
knowledge_base ==
    [StrategicTheory |->
         << <<"Coopetition", << <<s_value_net, << >> >> >> >> >>,
     BusinessConcept |->
         << <<"MarketStrategy", << <<s_value_network, << >> >> >> >> >>,
     IndustryContext |->
         << <<"ProductsAndSystems",
              << <<s_clt_facade, <<s_clt_facade_system>> >>,
                 <<s_cross_laminated_timber, <<s_clt>> >> >> >>,
            <<"FocalCompany", << <<s_terra, << >> >> >> >>,
            <<"CompaniesAndSoftware", << <<s_katerra, << >> >> >> >> >>]

\* index[key] = value on a dict: a new key goes to the end, a key the dict
\* holds keeps its place and takes the new value
dict_set(index, key, value) ==
    IF \E i \in DOMAIN index : index[i][1] = key
    THEN [i \in DOMAIN index |-> IF index[i][1] = key THEN <<key, value>> ELSE index[i]]
    ELSE Append(index, <<key, value>>)

\* for s in synonyms: index[s] = (bucket, canon)
RECURSIVE index_synonyms(_, _, _)
index_synonyms(index, paraphrases, value) ==
    IF paraphrases = << >> THEN index
    ELSE index_synonyms(dict_set(index, Head(paraphrases), value), Tail(paraphrases),
                        value)

\* for canon, synonyms in terms.items(): index[canon] = (bucket, canon), then
\* the paraphrases
RECURSIVE index_terms(_, _, _)
index_terms(index, bucket, terms) ==
    IF terms = << >> THEN index
    ELSE LET canon == Head(terms)[1]
             paraphrases == Head(terms)[2]
             value == <<bucket, canon>>
         IN  index_terms(index_synonyms(dict_set(index, canon, value), paraphrases, value),
                         bucket, Tail(terms))

\* for bucket, terms in knowledge_base[category].items()
RECURSIVE index_buckets(_, _)
index_buckets(index, buckets) ==
    IF buckets = << >> THEN index
    ELSE index_buckets(index_terms(index, Head(buckets)[1], Head(buckets)[2]),
                       Tail(buckets))

\* _build_indices, run on import: the three lookup tables, each a dict from a
\* phrase to (bucket, canonical term), in insertion order
THEORY_IDX == index_buckets(<< >>, knowledge_base.StrategicTheory)

BIZ_IDX == index_buckets(<< >>, knowledge_base.BusinessConcept)

IC_IDX == index_buckets(<< >>, knowledge_base.IndustryContext)

\* phrase in haystack
is_substring(phrase, haystack) ==
    \E i \in 0..(Len(haystack) - Len(phrase)) :
        SubSeq(haystack, i + 1, i + Len(phrase)) = phrase

\* for phrase, (sub, canon) in index.items(): if phrase in haystack:
\* found.append((category, sub, canon))
RECURSIVE tags_in(_, _, _)
tags_in(category, index, haystack) ==
    IF index = << >> THEN << >>
    ELSE LET phrase == Head(index)[1]
             sub == Head(index)[2][1]
             canon == Head(index)[2][2]
         IN  (IF is_substring(phrase, haystack) THEN << <<category, sub, canon>> >>
              ELSE << >>)
             \o tags_in(category, Tail(index), haystack)

\* the tags found in the three indices, in the order of the three loops
found_in(haystack) ==
    tags_in("StrategicTheory", THEORY_IDX, haystack)
    \o tags_in("BusinessConcept", BIZ_IDX, haystack)
    \o tags_in("IndustryContext", IC_IDX, haystack)

\* the loop over found that appends a tag to unique unless seen holds it
RECURSIVE unique_tags(_, _)
unique_tags(found, seen) ==
    IF found = << >> THEN << >>
    ELSE IF Head(found) \in seen THEN unique_tags(Tail(found), seen)
         ELSE <<Head(found)>> \o unique_tags(Tail(found), seen \cup {Head(found)})

\* a tagger that returns the tags as it found them
extract_tags_as_found(text) == found_in(normalise(text))

\* extract_tags(text)
extract_tags(text) == unique_tags(found_in(normalise(text)), {})

\* the pieces the texts handed to extract_tags are made of
TagPieces ==
    {<<"V", "a", "l", "u", "e", " ">>,
     <<"n", "e", "t">>,
     <<"w", "o", "r", "k">>,
     <<"C", "L", "T", "\t", " ", "f", "a", "c", "a", "d", "e">>,
     <<" ", "s", "y", "s", "t", "e", "m">>,
     <<"k", "a">>,
     <<"T", "e", "r", "r", "a">>,
     <<" ">>}

\* the concatenation of a sequence of texts
RECURSIVE concat(_)
concat(pieces) == IF pieces = << >> THEN << >> ELSE Head(pieces) \o concat(Tail(pieces))

\* the texts handed to extract_tags
TagTexts == {concat(pieces) : pieces \in SeqUpTo(TagPieces, MaxPieces)}

InitTags ==
    /\ pc = "idle"
    /\ fuzz = << >>
    /\ similarity = << >>
    /\ extract_one = << >>
    /\ IdleMap
    /\ IdleKnowledgeBase
    /\ IdleExtract
    /\ IdleAssemble
    /\ IdleFront
    /\ IdleText
    /\ InitLoader("installed")

\* extract_tags(text)
ExtractTags ==
    \E text \in TagTexts :
        /\ pc = "idle"
        /\ pc' = "returned"
        /\ tag_text' = text
        /\ found_tags' = extract_tags(text)
        /\ error' = "none"
        /\ UNCHANGED <<oracle_vars, map_vars, kb_vars, loader_vars, extract_vars,
                       assemble_vars, text_vars, template_vars, export_vars, cli_vars,
                       thread_vars, categorized_concepts>>

\* the caller is done with the tags
DiscardTags ==
    /\ pc = "returned"
    /\ pc' = "idle"
    /\ tag_text' = << >>
    /\ found_tags' = << >>
    /\ error' = "none"
    /\ UNCHANGED <<oracle_vars, map_vars, kb_vars, loader_vars, extract_vars,
                   assemble_vars, text_vars, template_vars, export_vars, cli_vars,
                   thread_vars, categorized_concepts>>

NextTags == ExtractTags \/ DiscardTags

SpecTags == InitTags /\ [][NextTags]_vars

-----------------------------------------------------------------------------
(* case_context/map.py: analyze_case_context *)

\* the number of terms of a fact set
fact_count(extracted_facts) ==
    Len(extracted_facts.named_entities) + Len(extracted_facts.noun_chunks)
    + Len(extracted_facts.business_verbs)

\* the fact sets of at most n terms
FactSets(n) ==
    UNION {UNION {{[named_entities |-> entities, noun_chunks |-> chunks,
                    business_verbs |-> verbs] :
                       verbs \in SeqUpTo(TermUniverse, n - Len(entities) - Len(chunks))} :
                  chunks \in SeqUpTo(TermUniverse, n - Len(entities))} :
           entities \in SeqUpTo(TermUniverse, n)}

\* "Combine all extracted terms": the lists of the case, then those of the
\* question
all_terms(case_facts, question_facts) ==
    case_facts.named_entities \o case_facts.noun_chunks \o case_facts.business_verbs
    \o question_facts.named_entities \o question_facts.noun_chunks
    \o question_facts.business_verbs

\* a grouping that starts the list of a category anew with every concept
RECURSIVE group_by_category_anew(_, _)
group_by_category_anew(concepts, grouped) ==
    IF concepts = << >> THEN grouped
    ELSE LET concept == Head(concepts)
         IN  IF \E i \in DOMAIN grouped : grouped[i][1] = concept.category
             THEN group_by_category_anew(
                      Tail(concepts),
                      [i \in DOMAIN grouped |->
                          IF grouped[i][1] = concept.category
                          THEN <<grouped[i][1], <<concept>> >>
                          ELSE grouped[i]])
             ELSE group_by_category_anew(Tail(concepts),
                                         Append(grouped, <<concept.category, <<concept>> >>))

\* "Group by category": the dict categorized_concepts, as its items in
\* insertion order; a concept is appended to the list of its category
RECURSIVE group_by_category(_, _)
group_by_category(concepts, grouped) ==
    IF concepts = << >> THEN grouped
    ELSE LET concept == Head(concepts)
         IN  IF \E i \in DOMAIN grouped : grouped[i][1] = concept.category
             THEN group_by_category(
                      Tail(concepts),
                      [i \in DOMAIN grouped |->
                          IF grouped[i][1] = concept.category
                          THEN <<grouped[i][1], Append(grouped[i][2], concept)>>
                          ELSE grouped[i]])
             ELSE group_by_category(Tail(concepts),
                                    Append(grouped, <<concept.category, <<concept>> >>))

\* the pairs of fact sets handed to analyze_case_context
FactPairs ==
    UNION {{<<case_facts, question_facts>> :
               question_facts \in FactSets(MaxTerms - fact_count(case_facts))} :
           case_facts \in FactSets(MaxTerms)}

\* the lists of terms analyze_case_context combines from them
CombinedTerms == {all_terms(p[1], p[2]) : p \in FactPairs}

\* analyze_case_context(case_facts, question_facts), by the terms it combines
\* from the fact sets: nothing else of the fact sets is used.  An exception of
\* map_to_knowledge_base ends the call.
AnalyzeCaseContext ==
    /\ pc = "idle"
    /\ pc' = "analysed"
    /\ \E terms \in CombinedTerms :
           \E answers \in ExtractOneAnswers(terms) :
               \E sims \in SimilarityAnswers(terms) :
                   /\ MapToKnowledgeBaseCall(terms, answers, sims)
                   /\ categorized_concepts' =
                          IF error' = "none"
                          THEN group_by_category(mapped_concepts', << >>)
                          ELSE << >>
    /\ UNCHANGED <<template_vars, export_vars, cli_vars, tag_vars, thread_vars, fuzz,
                   map_vars, extract_vars, assemble_vars, text_vars>>

\* the caller is done with the result of analyze_case_context
DiscardAnalysed ==
    /\ pc = "analysed"
    /\ pc' = "idle"
    /\ extract_one' = << >>
    /\ similarity' = << >>
    /\ extracted_terms' = << >>
    /\ mapped_concepts' = << >>
    /\ fuzzy_calls' = {}
    /\ kb_semantic_calls' = {}
    /\ categorized_concepts' = << >>
    /\ error' = "none"
    /\ UNCHANGED <<template_vars, export_vars, cli_vars, tag_vars, thread_vars, fuzz,
                   map_vars, loader_vars, extract_vars, assemble_vars, text_vars>>

NextAnalyze == AnalyzeCaseContext \/ DiscardAnalysed

SpecAnalyze == InitKnowledgeBase /\ [][NextAnalyze]_vars

-----------------------------------------------------------------------------
(* Properties of map_concepts *)

\* C2: the list map_concepts returns holds no two matches with the same
\* (concept, source) pair.
C2_NoDuplicateKeys ==
    \A i, j \in 1..Len(unique_matches) :
        (/\ unique_matches[i].concept = unique_matches[j].concept
         /\ unique_matches[i].source = unique_matches[j].source) => i = j

\* two facts hit the same concept with the same source tag, and the call returned
C2_Witness ==
    /\ pc = "returned"
    /\ \E i, j \in 1..Len(all_matches) :
          /\ i # j
          /\ all_matches[i].concept = all_matches[j].concept
          /\ all_matches[i].source = all_matches[j].source
    /\ unique_matches # << >>

\* C3: the list map_concepts returns is sorted by non-increasing score, and it
\* keeps the order of the sorted candidates: an entry that precedes another in
\* the result has a score at least as high.
C3_SortedByScore ==
    \A i, j \in 1..Len(unique_matches) :
        i < j => unique_matches[i].score >= unique_matches[j].score

\* the candidates were collected in an order that is not the score order, and
\* the result holds entries of different scores
C3_Witness ==
    /\ pc = "returned"
    /\ \E i \in 1..Len(all_matches) - 1 : all_matches[i].score < all_matches[i + 1].score
    /\ \E i, j \in 1..Len(unique_matches) : unique_matches[i].score > unique_matches[j].score

\* the source tag of an input text: a dictionary key names it with "_text"
source_tag(source) ==
    CASE source = "case_text" -> "case"
      [] source = "question_text" -> "question"
      [] source = "user_inputs_text" -> "user_inputs"
      [] OTHER -> source

\* C5: every match map_concepts returns carries the source tag of an input
\* text from which its matched phrase was extracted.
C5_SourceOfPhrase ==
    \A i \in 1..Len(unique_matches) :
        \E k \in 1..Len(facts) :
            /\ facts[k].text = unique_matches[i].matched_text
            /\ source_tag(facts[k].source) = unique_matches[i].source

\* C6: a match is emitted for a (phrase, concept) pair only if the pair's fuzzy
\* score reaches FUZZY_THRESHOLD or its semantic score reaches
\* SEMANTIC_THRESHOLD.
C6_OwnThreshold ==
    \A i \in 1..Len(all_matches) :
        LET m == all_matches[i]
        IN  \/ fuzzy_score_of(m.matched_text, m.concept) >= FUZZY_THRESHOLD
            \/ semantic_match(m.matched_text, m.concept) >= SEMANTIC_THRESHOLD

\* C7: the semantic similarity of a pair is computed only if the pair's fuzzy
\* score is below FUZZY_THRESHOLD, and a match of a pair whose fuzzy score
\* reaches the threshold carries the fuzzy score.
C7_ShortCircuit ==
    /\ \A call \in semantic_calls :
          fuzzy_score_of(call[1], call[2]) < FUZZY_THRESHOLD
    /\ \A i \in 1..Len(all_matches) :
          LET m == all_matches[i]
              fuzzy_score == fuzzy_score_of(m.matched_text, m.concept)
          IN  fuzzy_score >= FUZZY_THRESHOLD => m.score = fuzzy_score

\* the thresholds between which the counts are compared, in ascending order
ThresholdValues == <<25, 50, 60, 85>>

\* C8: for the facts and library scores of a call, raising one threshold while
\* the other is held never increases the number of matches map_concepts
\* returns, nor the number _get_matches returns for a phrase.
C8_ThresholdMonotone ==
    \A lo \in 1..Len(ThresholdValues) - 1 : \A other \in 1..Len(ThresholdValues) :
        LET t1 == ThresholdValues[lo]
            t2 == ThresholdValues[lo + 1]
            o == ThresholdValues[other]
        IN  /\ Len(map_concepts_at(facts, t2, o)) <= Len(map_concepts_at(facts, t1, o))
            /\ Len(map_concepts_at(facts, o, t2)) <= Len(map_concepts_at(facts, o, t1))
            /\ \A k \in 1..Len(facts) :
                  /\ Len(get_matches_at(facts[k].text, t2, o))
                        <= Len(get_matches_at(facts[k].text, t1, o))
                  /\ Len(get_matches_at(facts[k].text, o, t2))
                        <= Len(get_matches_at(facts[k].text, o, t1))

\* a call whose match count really drops when a threshold is raised
C8_Witness ==
    /\ pc = "returned"
    /\ unique_matches # << >>
    /\ Len(map_concepts_at(facts, 85, 85)) < Len(unique_matches)

\* C4: when the candidates hold a hit on a concept tagged 'case' and a hit on
\* the same concept tagged 'question', the result holds a match of that concept
\* for each of the two tags; more generally the duplicate filter keeps a match
\* for each of two candidates whose source tags differ.
C4_KeepsBothSources ==
    \A i, j \in 1..Len(all_matches) :
        (/\ all_matches[i].concept = all_matches[j].concept
         /\ all_matches[i].source # all_matches[j].source)
        => \E a, b \in 1..Len(unique_matches) :
              /\ a # b
              /\ unique_matches[a].concept = all_matches[i].concept
              /\ unique_matches[a].source = all_matches[i].source
              /\ unique_matches[b].concept = all_matches[j].concept
              /\ unique_matches[b].source = all_matches[j].source

\* the candidates hold a 'case' hit and a 'question' hit on one concept, and
\* the aggregation has run
C4_Witness ==
    /\ pc = "returned"
    /\ \E i, j \in 1..Len(all_matches) :
          /\ all_matches[i].concept = all_matches[j].concept
          /\ all_matches[i].source = "case"
          /\ all_matches[j].source = "question"
    /\ Len(unique_matches) = 2

\* C14: every (concept, source) key among the candidates of a call has exactly
\* one match in the result, and that match carries the highest score of the
\* candidates with the key.
C14_FirstInSortOrderWins ==
    \A i \in 1..Len(all_matches) :
        LET same_key == {n \in 1..Len(unique_matches) :
                           dedup_key(unique_matches[n]) = dedup_key(all_matches[i])}
        IN  /\ Cardinality(same_key) = 1
            /\ \A n \in same_key :
                  /\ unique_matches[n].score >= all_matches[i].score
                  /\ \E j \in 1..Len(all_matches) : all_matches[j] = unique_matches[n]

\* two candidates of one key with different scores, the lower one collected first
C14_Witness ==
    /\ pc = "returned"
    /\ \E i, j \in 1..Len(all_matches) :
          /\ i < j
          /\ dedup_key(all_matches[i]) = dedup_key(all_matches[j])
          /\ all_matches[i].score < all_matches[j].score

-----------------------------------------------------------------------------
(* Properties of assemble_answer *)

\* the phrases nlp() finds in the text under a key of the dictionary
phrases_of(key) ==
    UNION {Range(request_texts[k].noun_chunks) \cup Range(request_texts[k].verbs) :
             k \in {n \in 1..Len(request_texts) : request_texts[n].source = key}}

\* C15: with the model installed, a request whose texts are all empty yields no
\* phrases and no matches, and assemble_answer returns the "no concepts
\* detected" message without an exception.
C15_EmptyInput ==
    (/\ pc = "returned"
     /\ request_texts # << >>
     /\ backend = "installed"
     /\ \A k \in 1..Len(request_texts) : request_texts[k].noun_chunks = << >> /\ request_texts[k].verbs = << >>)
    => /\ error = "none"
       /\ facts = << >>
       /\ unique_matches = << >>
       /\ rendered = << >>
       /\ answer = "no concepts detected"

\* a request with empty texts has been answered
C15_Witness ==
    /\ pc = "returned"
    /\ backend = "installed"
    /\ Len(request_texts) = 4
    /\ \A k \in 1..Len(request_texts) : request_texts[k].noun_chunks = << >> /\ request_texts[k].verbs = << >>
    /\ answer = "no concepts detected"

\* C17: with only_question set, the rendered matches are those of the matches
\* of map_concepts whose phrase comes from the question text: a match of a
\* phrase that only the question text holds is kept, and a match of a phrase
\* that the question text does not hold is removed.
C17_OnlyQuestion ==
    (pc = "returned" /\ request_texts # << >> /\ error = "none" /\ only_question /\ top_n = << >>)
    => /\ \A i \in 1..Len(unique_matches) :
             (/\ unique_matches[i].matched_text \in phrases_of("question_text")
              /\ unique_matches[i].matched_text \notin phrases_of("case_text"))
             => \E k \in 1..Len(rendered) : rendered[k] = unique_matches[i]
       /\ \A k \in 1..Len(rendered) :
             rendered[k].matched_text \in phrases_of("question_text")

\* C18: with an integer top_n >= 0, the rendered matches are the first top_n
\* entries of the sorted and source-filtered list (all of them if it is
\* shorter), so at most top_n matches are rendered.
C18_TopN ==
    (pc = "returned" /\ request_texts # << >> /\ error = "none" /\ top_n # << >>)
    => LET filtered == filter_question(unique_matches, only_question)
       IN  /\ Len(rendered) <= top_n[1]
           /\ Len(rendered) = (IF Len(filtered) < top_n[1] THEN Len(filtered) ELSE top_n[1])
           /\ \A k \in 1..Len(rendered) : rendered[k] = filtered[k]

-----------------------------------------------------------------------------
(* Properties of map_to_knowledge_base *)

\* the keys of the table: its canonical terms (this table lists no paraphrases)
kb_keys == Range(kb_choices)

\* C1: a term that equals a key after normalisation (lower-casing and
\* collapsing whitespace runs) gets exactly one entry, from the exact tier with
\* confidence 1.0, and is handed neither to the fuzzy nor to the semantic scorer.
C1_ExactTierPrecedence ==
    (pc = "returned" /\ error = "none") =>
        \A i \in 1..Len(extracted_terms) :
            normalise(extracted_terms[i]) \in kb_keys =>
                /\ Len(mapped_concepts) = Len(extracted_terms)
                /\ mapped_concepts[i].concept = extracted_terms[i]
                /\ mapped_concepts[i].confidence = FULL_CONFIDENCE
                /\ extracted_terms[i] \notin fuzzy_calls
                /\ extracted_terms[i] \notin kb_semantic_calls

\* C9: the phrase 'network externalities' resolves to the canonical term
\* 'network effects' with category 'StrategicTheory' and framework
\* 'PlatformStrategy', at maximum confidence through the exact tier.
C9_ParaphraseToCanonical ==
    (pc = "returned" /\ error = "none") =>
        \A i \in 1..Len(extracted_terms) :
            extracted_terms[i] = s_network_externalities =>
                /\ mapped_concepts[i].concept = s_network_effects
                /\ mapped_concepts[i].category = "StrategicTheory"
                /\ mapped_concepts[i].theory = "PlatformStrategy"
                /\ mapped_concepts[i].confidence = FULL_CONFIDENCE
                /\ extracted_terms[i] \notin fuzzy_calls

\* C10: a term that clears none of the three tiers gets no entry (the model has
\* no fallback policy that could have been enabled, as the code has none).
C10_NoEntryForUnmatched ==
    (pc = "returned" /\ error = "none") =>
        \A i \in 1..Len(extracted_terms) :
            tier_of(extracted_terms[i]) = "none" =>
                \A k \in 1..Len(mapped_concepts) :
                    mapped_concepts[k].concept # extracted_terms[i]

\* C11: when the model cannot be loaded, a request to map_to_knowledge_base
\* with at least one term fails with an error and returns no entries.
C11_ModelUnavailableFails ==
    (pc = "returned" /\ backend = "unavailable" /\ extracted_terms # << >>)
    => (error # "none" /\ mapped_concepts = << >>)

-----------------------------------------------------------------------------
(* Properties of load_nlp_model and process_case_text *)

\* C12: for each load_nlp_model, every call that returns yields one and the
\* same model object, which is the cached one, and once a call has returned
\* the model no later call builds a model again.
C12_LoadedOnce ==
    /\ [](\A m \in Modules :
            /\ Cardinality(returned_models[m]) <= 1
            /\ returned_models[m] \subseteq {nlp[m]})
    /\ [][\A m \in Modules : nlp[m] # 0 => load_count'[m] = load_count[m]]_vars

\* a request made two cached calls after the model had been loaded once
C12_Witness ==
    /\ pc = "returned"
    /\ Len(extracted) >= 2
    /\ load_count["case_context.extract"] = 1
    /\ returned_models["case_context.extract"] = {nlp["case_context.extract"]}

\* C16: when the model is loaded, every input of a process_case_text request
\* whose own extraction does not fail has its facts in the result, whatever
\* happens to the other inputs, and a request with a failing input still
\* returns.
C16_FailureScopedToInput ==
    (pc = "returned" /\ case_inputs # << >> /\ error \notin {"DownloadFailure", "Exception"})
    => \A i \in 1..Len(case_inputs) :
          (~case_inputs[i].empty /\ ~case_inputs[i].oversized)
          => \E k \in 1..Len(extracted) :
                extracted[k].noun_chunks = case_inputs[i].noun_chunks

-----------------------------------------------------------------------------
(* Properties of _normalise and build_concept_sentences *)

\* C19: _normalise is idempotent: normalising a normalised text changes nothing.
C19_NormaliseIdempotent ==
    pc = "renormalised" => renormalised = normalised

\* a text with an upper-case letter and a run of whitespace has been normalised twice
C19_Witness ==
    /\ pc = "renormalised"
    /\ \E i \in 1..Len(raw_text) : raw_text[i] = "A"
    /\ \E i \in 1..Len(raw_text) - 1 :
          raw_text[i] \in Whitespace /\ raw_text[i + 1] \in Whitespace
    /\ Len(normalised) < Len(raw_text)

s_concepts_include == <<" ", "c", "o", "n", "c", "e", "p", "t", "s", " ", "i", "n", "c", "l", "u", "d", "e", ":", " ">>

\* the sentence of a category in the form 'In this case, the <category>
\* concepts include: <t1>, <t2>, ... .'
stated_sentence(category, concepts) ==
    s_In_this_case_the \o lower(replace_underscores(category)) \o s_concepts_include
    \o join(<<",", " ">>,
            [i \in 1..Len(concepts) |->
                IF concepts[i].theory # << >>
                THEN concepts[i].concept \o <<" ", "(">> \o concepts[i].theory \o <<")">>
                ELSE concepts[i].concept])
    \o <<".">>

\* C20: the result holds, for each category with at least one concept and in the
\* order of the input, one sentence 'In this case, the <category> concepts
\* include: <terms>.', the sentences joined by single spaces.
C20_SentenceForm ==
    (/\ pc = "built"
     /\ \E i \in 1..Len(categories) : categories[i][2] # << >>)
    => LET filled == SelectSeq(categories, LAMBDA item : item[2] # << >>)
       IN  sentences =
              join(<<" ">>,
                   [i \in 1..Len(filled) |-> stated_sentence(filled[i][1], filled[i][2])])

-----------------------------------------------------------------------------
(* Properties of assemble_answer with templates *)

\* the words of part stand next to each other in words
contains(words, part) ==
    \E i \in 0..(Len(words) - Len(part)) : SubSeq(words, i + 1, i + Len(part)) = part

\* where part first stands in words, 0 if nowhere
first_position(words, part) ==
    IF contains(words, part)
    THEN CHOOSE i \in 1..Len(words) :
            /\ i + Len(part) - 1 <= Len(words)
            /\ SubSeq(words, i, i + Len(part) - 1) = part
            /\ \A k \in 1..(i - 1) : SubSeq(words, k, k + Len(part) - 1) # part
    ELSE 0

\* a theory in parentheses, as build_concept_sentences writes it
in_parentheses(theory) == IF theory = "TCE" THEN "(TCE)" ELSE "(Platform)"

\* a concept as build_concept_sentences formats it: the term, followed by
\* its theory in parentheses when it has one
formatted_words(c) ==
    IF c.theory # "None" THEN c.concept \o <<in_parentheses(c.theory)>> ELSE c.concept

\* a call of generate_answer with templates and mapped concepts has returned
TemplatesAnswered ==
    /\ pc = "returned"
    /\ theory_templates # << >>
    /\ concepts_by_category # << >>

\* C21: an answer built from templates and mapped concepts does not hold the
\* placeholder {{CONCEPT_SENTENCES}}, and holds every mapped concept as
\* build_concept_sentences formats it (with its theory in parentheses).
C21_PlaceholderReplaced ==
    (TemplatesAnswered /\ error = "none") =>
        /\ \A i \in 1..Len(assembled) : assembled[i] # CONCEPT_SENTENCES
        /\ \A k \in 1..Len(concepts_by_category) :
              \A n \in 1..Len(concepts_by_category[k][2]) :
                  contains(assembled, formatted_words(concepts_by_category[k][2][n]))

\* C22: a call with templates, mapped concepts and a word limit N returns an
\* answer of at most N words: the untruncated answer if that has at most N
\* words, otherwise its leading words followed by "...".
C22_WordLimit ==
    (TemplatesAnswered /\ word_limit # << >>) =>
        LET untruncated == assemble_from_templates(theory_templates, concepts_by_category,
                                                   style_instructions)
        IN  /\ error = "none"
            /\ word_count(assembled) <= word_limit[1]
            /\ IF word_count(untruncated) <= word_limit[1]
               THEN assembled = untruncated
               ELSE /\ assembled # << >>
                    /\ assembled[Len(assembled)] = "..."
                    /\ \A i \in 1..(Len(assembled) - 1) : assembled[i] = untruncated[i]

\* C23: the answer holds the intro sections in the order of the templates,
\* the conclusion sections in the same order, and every conclusion after
\* every intro.
C23_SectionOrder ==
    (TemplatesAnswered /\ error = "none") =>
        LET with(section) ==
                SelectSeq(theory_templates, LAMBDA entry : section \in DOMAIN entry[2])
            intros == [i \in 1..Len(with("intro")) |->
                          first_position(assembled, with("intro")[i][2].intro)]
            conclusions == [i \in 1..Len(with("conclusion")) |->
                               first_position(assembled, with("conclusion")[i][2].conclusion)]
        IN  /\ \A i \in 1..Len(intros) : intros[i] > 0
            /\ \A i \in 1..Len(conclusions) : conclusions[i] > 0
            /\ \A i, j \in 1..Len(intros) : i < j => intros[i] < intros[j]
            /\ \A i, j \in 1..Len(conclusions) : i < j => conclusions[i] < conclusions[j]
            /\ \A i \in 1..Len(intros) : \A j \in 1..Len(conclusions) :
                  intros[i] < conclusions[j]

-----------------------------------------------------------------------------
(* Properties of the exporters *)

\* the lines of a text that are not blank
nonblank_lines(text) == SelectSeq(text, LAMBDA line : strip(line) # << >>)

\* the file holds the content of the call: the text itself in a Markdown
\* file; in a .docx file one paragraph or heading per line that is not blank,
\* in the order of the lines, with the line's text (a heading's text being
\* the line without its leading #s)
holds_content(file, call) ==
    IF call.function = "export_to_markdown"
    THEN file = <<"text", call.text>>
    ELSE /\ file # << >>
         /\ file[1] = "docx"
         /\ Len(file[2]) = Len(nonblank_lines(call.text))
         /\ \A k \in 1..Len(file[2]) :
               file[2][k].text \in {nonblank_lines(call.text)[k],
                                    strip(lstrip_hashes(nonblank_lines(call.text)[k]))}

\* C24: an export with overwrite=False to a path that exists raises
\* FileExistsError and leaves the file as it was; an export with
\* overwrite=True, or to a path that does not exist, leaves the file holding
\* the new content.
C24_OverwriteGuard ==
    export_call # << >> =>
        IF ~export_call.overwrite /\ export_call.before[export_call.path] # << >>
        THEN /\ error = "FileExistsError"
             /\ files = export_call.before
        ELSE /\ error = "none"
             /\ holds_content(files[export_call.path], export_call)

\* an export without overwrite was refused on an existing file, the file
\* holding something other than the text of the call
C24_Witness ==
    /\ export_call # << >>
    /\ ~export_call.overwrite
    /\ export_call.before[export_call.path] # << >>
    /\ ~holds_content(files[export_call.path], export_call)
    /\ error = "FileExistsError"

-----------------------------------------------------------------------------
(* Properties of validate_inputs *)

\* for the case or for the question, a file and a text are both given
mixed_input(args) ==
    \/ given(args.case_file) /\ given(args.case_text)
    \/ given(args.question_file) /\ given(args.question_text)

\* for the case or for the question, neither a file nor a text is given
missing_input(args) ==
    \/ ~given(args.case_file) /\ ~given(args.case_text)
    \/ ~given(args.question_file) /\ ~given(args.question_text)

\* a file that is given does not exist
file_not_found(args) ==
    \/ given(args.case_file) /\ ~path_exists(args.case_file)
    \/ given(args.question_file) /\ ~path_exists(args.question_file)

\* C25: validate_inputs raises UsageError exactly when an input is mixed, an
\* input is missing or a given file does not exist (an argument being given
\* when it is a non-empty string), and the error it reports is one of mixed
\* input if there is any, else one of missing input if there is any, else one
\* of a file that was not found.
C25_ValidationOrder ==
    cli_args # << >> =>
        /\ error = "UsageError" <=>
              (mixed_input(cli_args) \/ missing_input(cli_args) \/ file_not_found(cli_args))
        /\ IF mixed_input(cli_args)
           THEN usage_error \in {"mixed case input", "mixed question input"}
           ELSE IF missing_input(cli_args)
           THEN usage_error \in {"no case input", "no question input"}
           ELSE IF file_not_found(cli_args)
           THEN usage_error \in {"case file not found", "question file not found"}
           ELSE usage_error = "none" /\ error = "none"

\* main(["nonexistent.txt"]): the case file does not exist and no question is
\* given, and the missing question is what is reported
C25_Witness ==
    /\ cli_args # << >>
    /\ cli_args.case_file = "nonexistent.txt"
    /\ ~given(cli_args.question_file)
    /\ ~given(cli_args.question_text)
    /\ usage_error = "no question input"

-----------------------------------------------------------------------------
(* Properties of process_case_text and of a failing load_nlp_model *)

\* C26: a call of process_case_text that returns yields one fact set for the
\* case text, then one for the question text, then one for the user inputs if
\* they are given, each tagged with its source and holding the facts of its
\* text; an empty text contributes a fact set without facts.
C26_OneFactSetPerText ==
    (pc = "returned" /\ case_inputs # << >> /\ error = "none") =>
        LET supplied == IF case_inputs[3].empty THEN 2 ELSE 3
            sources == <<"case", "question", "user_inputs">>
        IN  /\ Len(extracted) = supplied
            /\ \A i \in 1..supplied :
                  /\ i <= Len(extracted)
                  /\ extracted[i].source = sources[i]
                  /\ extracted[i].noun_chunks = case_inputs[i].noun_chunks
                  /\ extracted[i].business_verbs = case_inputs[i].business_verbs

\* the exceptions of the loader of a module
LoaderErrors(m) ==
    IF m = "case_context.extract" THEN {"DownloadFailure", "Exception"} ELSE {"OSError"}

\* C29: when a call of load_nlp_model has raised, the cache of its module is
\* unset; a model whose initialisation run fails is never cached nor returned;
\* and a model that the call after a failed one returns is one it has built.
C29_FailedLoadLeavesCacheUnset ==
    /\ [](\A m \in Modules : error \in LoaderErrors(m) => nlp[m] = 0)
    /\ [](backend = "faulty" =>
             /\ nlp["case_context.extract"] = 0
             /\ returned_models["case_context.extract"] = {})
    /\ [][\A m \in Modules :
            error \in LoaderErrors(m) =>
                \A model \in returned_models'[m] \ returned_models[m] :
                    /\ load_count'[m] = load_count[m] + 1
                    /\ model = load_count'[m]]_vars

\* the initialisation run has failed in two calls, each of which built a model
C29_Witness ==
    /\ error = "Exception"
    /\ load_count["case_context.extract"] = 2
    /\ nlp["case_context.extract"] = 0

-----------------------------------------------------------------------------
(* Properties of load_nlp_model under concurrent callers *)

\* C27 as stated: with a model package that loads, whatever the interleaving
\* of the callers, each loader builds one model at most and all callers that
\* return hold the same model object.
C27_GuardSuffices ==
    backend \in {"installed", "downloadable"} =>
        \A m \in Modules :
            /\ load_count[m] <= 1
            /\ \A t, u \in Threads :
                  (/\ thread_pc[t] = inside(m, "done")
                   /\ thread_pc[u] = inside(m, "done"))
                  => thread_nlp[t] = thread_nlp[u]

\* C27, amended: callers that overlap may each build a model and may hold
\* different model objects, but (1) a loader builds no more models than there
\* are threads, as long as the package is not faulty; (2) a model is built
\* only by a thread that has found the cache unset; (3) a call that tests the
\* cache when it is set returns the cached object and builds nothing; (4) the
\* cache and every caller that has returned hold a model that was built, and
\* never one whose initialisation run failed.
C27_OneLoadPerRacingCaller ==
    /\ [](\A m \in Modules :
            /\ backend # "faulty" => load_count[m] <= MaxThreads
            /\ nlp[m] \in 0..load_count[m]
            /\ \A t \in Threads :
                  thread_pc[t] = inside(m, "done") => thread_nlp[t] \in 1..load_count[m])
    /\ [](backend = "faulty" =>
             /\ nlp["case_context.extract"] = 0
             /\ \A t \in Threads :
                   thread_pc[t] # inside("case_context.extract", "done"))
    /\ [][\A m \in Modules :
            load_count'[m] # load_count[m] =>
                /\ load_count'[m] = load_count[m] + 1
                /\ \E t \in Threads :
                      /\ thread_pc[t] = inside(m, "load")
                      /\ thread_nlp'[t] = load_count'[m]]_vars
    /\ [][\A t \in Threads : \A m \in Modules :
            (/\ thread_pc[t] = inside(m, "check")
             /\ thread_pc'[t] # thread_pc[t]
             /\ nlp[m] # 0)
            => /\ thread_pc'[t] = inside(m, "done")
               /\ thread_nlp'[t] = nlp[m]
               /\ load_count' = load_count]_vars

\* two callers of one loader have both returned, with different model objects
C27_Witness ==
    \E m \in Modules : \E t, u \in Threads :
        /\ thread_pc[t] = inside(m, "done")
        /\ thread_pc[u] = inside(m, "done")
        /\ thread_nlp[t] # thread_nlp[u]
        /\ load_count[m] = 2

-----------------------------------------------------------------------------
(* Properties of extract_tags *)

\* the categories extract_tags looks in
TagCategories == {"StrategicTheory", "BusinessConcept", "IndustryContext"}

\* the tags of the knowledge base with the phrases that stand for each: the
\* canonical term and its paraphrases
tagged_phrases ==
    UNION {UNION {{[tag |-> <<category, knowledge_base[category][b][1],
                              knowledge_base[category][b][2][t][1]>>,
                    phrases |-> {knowledge_base[category][b][2][t][1]}
                                \cup Range(knowledge_base[category][b][2][t][2])] :
                       t \in DOMAIN knowledge_base[category][b][2]} :
                  b \in DOMAIN knowledge_base[category]} :
           category \in TagCategories}

\* the phrases of the three indices in the order extract_tags walks them, each
\* with the tag it stands for
walk_order ==
    [i \in DOMAIN THEORY_IDX |-> <<THEORY_IDX[i][1], <<"StrategicTheory">> \o THEORY_IDX[i][2]>>]
    \o [i \in DOMAIN BIZ_IDX |-> <<BIZ_IDX[i][1], <<"BusinessConcept">> \o BIZ_IDX[i][2]>>]
    \o [i \in DOMAIN IC_IDX |-> <<IC_IDX[i][1], <<"IndustryContext">> \o IC_IDX[i][2]>>]

\* the first place of the walk at which the tag is found in the haystack
first_found(tag, haystack) ==
    CHOOSE i \in DOMAIN walk_order :
        /\ walk_order[i][2] = tag
        /\ is_substring(walk_order[i][1], haystack)
        /\ \A j \in 1..(i - 1) :
               ~(walk_order[j][2] = tag /\ is_substring(walk_order[j][1], haystack))

\* C28: extract_tags(text) returns the tag (category, bucket or framework,
\* canonical term) exactly when the canonical term or one of its paraphrases
\* under StrategicTheory, BusinessConcept or IndustryContext is a substring of
\* the normalised text; no tag is returned twice, and the tags come in the
\* order in which they were first found.
C28_TagsOfSubstrings ==
    (pc = "returned" /\ error = "none") =>
        LET haystack == normalise(tag_text)
        IN  /\ \A entry \in tagged_phrases :
                   (entry.tag \in Range(found_tags))
                   <=> (\E phrase \in entry.phrases : is_substring(phrase, haystack))
            /\ Range(found_tags) \subseteq {entry.tag : entry \in tagged_phrases}
            /\ \A i, j \in DOMAIN found_tags : found_tags[i] = found_tags[j] => i = j
            /\ \A i, j \in DOMAIN found_tags :
                   i < j => first_found(found_tags[i], haystack)
                            < first_found(found_tags[j], haystack)

\* a text in which "clt facade system" occurs after a tab and a space: the
\* canonical term and its paraphrase both match, and one tag stands for both
C28_Witness ==
    /\ pc = "returned"
    /\ error = "none"
    /\ tag_text # normalise(tag_text)
    /\ is_substring(s_clt_facade, normalise(tag_text))
    /\ is_substring(s_clt_facade_system, normalise(tag_text))
    /\ <<"IndustryContext", "ProductsAndSystems", s_clt_facade>> \in Range(found_tags)
    /\ Len(found_tags) >= 2

-----------------------------------------------------------------------------
(* Properties of map_to_knowledge_base and analyze_case_context *)

\* the concepts of a category, in the order of the list
of_category(concepts, category) ==
    SelectSeq(concepts, LAMBDA concept : concept.category = category)

\* the sum of the lengths of the category lists from the n-th on
RECURSIVE total_length(_, _)
total_length(grouped, n) ==
    IF n > Len(grouped) THEN 0 ELSE Len(grouped[n][2]) + total_length(grouped, n + 1)

\* C30: map_to_knowledge_base returns exactly one MappedConcept per input
\* term, in input order, whose 'concept' is the input term; and
\* analyze_case_context places every one of them in exactly one category list
\* (that of its category), keeps their relative order inside each list, and
\* the lengths of the lists add up to the number of input terms.
C30_OneConceptPerTerm ==
    (pc = "analysed" /\ error = "none") =>
        /\ Len(mapped_concepts) = Len(extracted_terms)
        /\ \A i \in DOMAIN extracted_terms :
               mapped_concepts[i].concept = extracted_terms[i]
        /\ \A i, j \in DOMAIN categorized_concepts :
               categorized_concepts[i][1] = categorized_concepts[j][1] => i = j
        /\ \A i \in DOMAIN mapped_concepts :
               \E k \in DOMAIN categorized_concepts :
                   categorized_concepts[k][1] = mapped_concepts[i].category
        /\ \A k \in DOMAIN categorized_concepts :
               categorized_concepts[k][2]
                   = of_category(mapped_concepts, categorized_concepts[k][1])
        /\ total_length(categorized_concepts, 1) = Len(extracted_terms)

\* an analysis of as many terms as the bound allows, one of them matched by no
\* tier, that puts two concepts into one category list
C30_Witness ==
    /\ pc = "analysed"
    /\ error = "none"
    /\ Len(extracted_terms) = MaxTerms
    /\ \E i \in DOMAIN extracted_terms : tier_of(extracted_terms[i]) = "none"
    /\ \E k \in DOMAIN categorized_concepts : Len(categorized_concepts[k][2]) >= 2

====
